---- MODULE Spec2Model ----
(***************************************************************************)
(* Model of gmail-mcp: the table-layout unwrapper of internal/format       *)
(* (html_simplifier.go), the temporary files of its converter, the tools   *)
(* of internal/tool (GetMessages with its body/attachment extraction,      *)
(* PreviewAttachments, SearchMessages and the address parser), the OAuth   *)
(* token of internal/auth and the shutdown of main.                        *)
(* Each part is a machine of its own (Spec, SpecB64, SpecGm, SpecPa,       *)
(* SpecPe, SpecSm, SpecCv, SpecSu, SpecUw, SpecHp, SpecAu, SpecMn with     *)
(* its fair version FairSpecMn) over its own variables; the variables of   *)
(* the other machines stay at their idle values.                           *)
(*                                                                         *)
(* HTML nodes are records [Type, Data, Attr, kids].  Type is "doc",        *)
(* "elem", "text" or "comment".  For an element Data is the tag name; the  *)
(* Data of a text node is kept in the field Chars, a sequence of atoms:    *)
(*    "a"  a visible character                                             *)
(*    "s"  a space, "n" a newline (both trimmed by strings.TrimSpace)      *)
(*    "N1" the characters "&nb", "N2" the characters "sp;"                 *)
(* so that <<"N1","N2">> is the literal text "&nbsp;".                     *)
(* Attr is the ordered attribute list, records [Key, Val]; Val is a        *)
(* sequence of words so that strings.Contains is a real search.            *)
(***************************************************************************)
EXTENDS Integers, Sequences, FiniteSets, TLC

\* UnwrapTableLayout
VARIABLES htmlContent, doc, pc, iter, changed, out, status, results, unwrapLog
\* decodeBase64URL
VARIABLES data, decoded
\* GetMessages
VARIABLES gmPc, ids, msgIndex, msg, textBody, htmlBody, content, messages, convLog, gmResult,
          getLog

unwrapVars == <<htmlContent, doc, pc, iter, changed, out, status, results, unwrapLog>>
b64Vars == <<data, decoded>>
gm == <<gmPc, ids, msgIndex, msg, textBody, htmlBody, content, messages, convLog, gmResult,
        getLog>>
\* PreviewAttachments
VARIABLES paPc, paMsg, paIds, paIndex, paMeta, previews, paData, paResponse, paResult

paVars == <<paPc, paMsg, paIds, paIndex, paMeta, previews, paData, paResponse, paResult>>
\* parseEmailAddress
VARIABLES from, addr

peVars == <<from, addr>>
\* SearchMessages
VARIABLES smPc, input, listArg, result, smIndex, summaries, smResponse, smResult

smVars == <<smPc, input, listArg, result, smIndex, summaries, smResponse, smResult>>
\* Converter.HTML2MD and Converter.PDF2Text
VARIABLES cvPc, kind, tmpName, owner, written, ret, returned, cvLog, cleaned

cvVars == <<cvPc, kind, tmpName, owner, written, ret, returned, cvLog, cleaned>>
\* shouldUnwrapTable on its own
VARIABLES candidate, decision

suVars == <<candidate, decision>>
\* unwrapTable on its own
VARIABLES uwOrig, uwParent, uwPos, uwDone

uwVars == <<uwOrig, uwParent, uwPos, uwDone>>
\* simplifyNode on a tree of linked nodes
VARIABLES heap, hpPc, hpIter, hpChanged, cloneLog, removed

hpVars == <<heap, hpPc, hpIter, hpChanged, cloneLog, removed>>
\* auth.Token
VARIABLES auPc, auReq, auValid, auRet, auCalls, mu, stateStore, oauthTok, persistPath, onDisk,
          now, issued, validated, exchanges

auVars == <<auPc, auReq, auValid, auRet, auCalls, mu, stateStore, oauthTok, persistPath, onDisk,
            now, issued, validated, exchanges>>
\* main: the two transports and the shutdown
VARIABLES enableStdio, mainPc, defers, selected, httpPc, httpErr, stdioPc, stdioErr, errHTTPCh,
          errStdioCh, shutdown, signals, inShutdown, ctxDone, mainLog

mnVars == <<enableStdio, mainPc, defers, selected, httpPc, httpErr, stdioPc, stdioErr, errHTTPCh,
            errStdioCh, shutdown, signals, inShutdown, ctxDone, mainLog>>
more == <<hpVars, auVars, mnVars>>
\* the machines added after the first three
ext == <<paVars, peVars, smVars, cvVars, suVars, uwVars, more>>
notPa == <<unwrapVars, b64Vars, gm, peVars, smVars, cvVars, suVars, uwVars, more>>
notPe == <<unwrapVars, b64Vars, gm, paVars, smVars, cvVars, suVars, uwVars, more>>
notSm == <<unwrapVars, b64Vars, gm, paVars, peVars, cvVars, suVars, uwVars, more>>
notCv == <<unwrapVars, b64Vars, gm, paVars, peVars, smVars, suVars, uwVars, more>>
notSu == <<unwrapVars, b64Vars, gm, paVars, peVars, smVars, cvVars, uwVars, more>>
notUw == <<unwrapVars, b64Vars, gm, paVars, peVars, smVars, cvVars, suVars, more>>
vars == <<unwrapVars, b64Vars, gm, ext>>

\* ---------------------------------------------------------------- bounds
MaxFill == 5
MaxRuns == 3
MaxDataLen == 4
MaxBytesLen == 3
MaxMessages == 2
MaxAttachmentIds == 2
MaxHeaderLen == 4
MaxListed == 2
MaxCalls == 2
MaxSiblings == 2
MaxRequests == 3
MaxTime == 6
MaxSignals == 2

\* ------------------------------------------------------ program constants
maxIterations == 10
contentRowThreshold == 5
defaultMaxResults == 10
maxMaxResults == 50

\* ---------------------------------------------------------------- strings
\* a newline not counted as white space
IsSpace_NoNewline(c) == c = "s"

IsSpace(c) == c \in {"s", "n"}

MinOf(S) == CHOOSE x \in S : \A y \in S : x <= y
MaxOf(S) == CHOOSE x \in S : \A y \in S : x >= y

TrimSpace(s) ==
    LET idx == {i \in DOMAIN s : ~IsSpace(s[i])}
    IN  IF idx = {} THEN <<>> ELSE SubSeq(s, MinOf(idx), MaxOf(idx))

NbspLiteral == <<"N1", "N2">>

Contains(val, word) == \E i \in DOMAIN val : val[i] = word

\* ------------------------------------------------------------------ nodes
Text(d) == [Type |-> "text", Data |-> "", Chars |-> d, Attr |-> <<>>, kids |-> <<>>]
Elem(tag, attr, ks) == [Type |-> "elem", Data |-> tag, Chars |-> <<>>, Attr |-> attr, kids |-> ks]
Document(ks) == [Type |-> "doc", Data |-> "", Chars |-> <<>>, Attr |-> <<>>, kids |-> ks]
Comment == [Type |-> "comment", Data |-> "", Chars |-> <<>>, Attr |-> <<>>, kids |-> <<>>]

RECURSIVE Flatten(_)
Flatten(ss) == IF ss = <<>> THEN <<>> ELSE Head(ss) \o Flatten(Tail(ss))

isTableElement(tag) ==
    tag = "table" \/ tag = "tbody" \/ tag = "thead" \/
    tag = "tfoot" \/ tag = "tr" \/ tag = "td" \/ tag = "th"

RECURSIVE cloneNode(_)
cloneNode(n) ==
    [Type |-> n.Type, Data |-> n.Data, Chars |-> n.Chars, Attr |-> n.Attr,
     kids |-> [i \in DOMAIN n.kids |-> cloneNode(n.kids[i])]]

\* --------------------------------------------------------- classification
RECURSIVE hasTableHeaders(_)
hasTableHeaders(n) ==
    IF n.Type = "elem" /\ (n.Data = "th" \/ n.Data = "thead")
    THEN TRUE
    ELSE \E i \in DOMAIN n.kids : hasTableHeaders(n.kids[i])

countCellsInRow(row) ==
    Cardinality({i \in DOMAIN row.kids :
        row.kids[i].Type = "elem" /\ (row.kids[i].Data = "td" \/ row.kids[i].Data = "th")})

\* the tr elements of the subtree of n, in document (pre-)order
RECURSIVE RowsOf(_)
RowsOf(n) ==
    (IF n.Type = "elem" /\ n.Data = "tr" THEN <<n>> ELSE <<>>)
    \o Flatten([i \in DOMAIN n.kids |-> RowsOf(n.kids[i])])

collectRowCellCounts(table) ==
    LET rows == RowsOf(table) IN [i \in DOMAIN rows |-> countCellsInRow(rows[i])]

\* the rows of the table itself, those of nested tables left out
RECURSIVE OwnRowsOf(_)
OwnRowsOf(n) ==
    (IF n.Type = "elem" /\ n.Data = "tr" THEN <<n>> ELSE <<>>)
    \o Flatten([i \in DOMAIN n.kids |->
                  IF n.kids[i].Type = "elem" /\ n.kids[i].Data = "table" THEN <<>>
                  ELSE OwnRowsOf(n.kids[i])])

\* the columns counted over the table's own rows only
countTableColumns_OwnRows(table) ==
    LET rows == OwnRowsOf(table)
    IN  IF rows = <<>> THEN 0 ELSE MaxOf({countCellsInRow(rows[i]) : i \in DOMAIN rows})

countTableColumns(table) ==
    LET counts == collectRowCellCounts(table)
    IN  IF counts = <<>> THEN 0 ELSE MaxOf({counts[i] : i \in DOMAIN counts})

RECURSIVE hasTextContent(_)
hasTextContent(n) ==
    IF n.Type = "text"
    THEN LET text == TrimSpace(n.Chars) IN text # <<>> /\ text # NbspLiteral
    ELSE \E i \in DOMAIN n.kids : hasTextContent(n.kids[i])

countContentRows(table) ==
    LET rows == RowsOf(table)
    IN  Cardinality({i \in DOMAIN rows : hasTextContent(rows[i])})

areAllCountsEqual(counts) ==
    IF Len(counts) < 2 THEN FALSE
    ELSE \A i \in DOMAIN counts : counts[i] = counts[1]

hasConsistentRowStructure(table) == areAllCountsEqual(collectRowCellCounts(table))

hasLayoutId(table) ==
    \E i \in DOMAIN table.Attr :
        /\ table.Attr[i].Key = "id"
        /\ \/ table.Attr[i].Val = <<"main">>
           \/ Contains(table.Attr[i].Val, "layout")
           \/ Contains(table.Attr[i].Val, "wrapper")

\* the id rule tried before the header and column rules
shouldUnwrapTable_IdFirst(table) ==
    IF hasLayoutId(table) THEN TRUE
    ELSE IF hasTableHeaders(table) THEN FALSE
    ELSE IF countTableColumns(table) > 1 THEN FALSE
    ELSE IF countContentRows(table) > contentRowThreshold /\ hasConsistentRowStructure(table)
         THEN FALSE
    ELSE TRUE

shouldUnwrapTable(table) ==
    IF hasTableHeaders(table) THEN FALSE
    ELSE IF countTableColumns(table) > 1 THEN FALSE
    ELSE IF hasLayoutId(table) THEN TRUE
    ELSE IF countContentRows(table) > contentRowThreshold /\ hasConsistentRowStructure(table)
         THEN FALSE
    ELSE TRUE

\* ------------------------------------------------------------- extraction
lineBreak == Text(<<"n">>)

\* a line break after every row, also after one that added nothing
RECURSIVE extractTableContent_AlwaysBreak(_)
extractTableContent_AlwaysBreak(n) ==
    IF n.Type = "elem" /\ isTableElement(n.Data)
    THEN LET c == Flatten([i \in DOMAIN n.kids |-> extractTableContent_AlwaysBreak(n.kids[i])])
         IN  IF n.Data = "tr" THEN c \o <<lineBreak>> ELSE c
    ELSE IF n.Type = "elem" THEN <<cloneNode(n)>>
    ELSE IF n.Type = "text"
         THEN IF TrimSpace(n.Chars) # <<>> THEN <<Text(n.Chars)>> ELSE <<>>
    ELSE <<>>

RECURSIVE extractTableContent(_)
extractTableContent(n) ==
    IF n.Type = "elem" /\ isTableElement(n.Data)
    THEN LET c == Flatten([i \in DOMAIN n.kids |-> extractTableContent(n.kids[i])])
         IN  IF n.Data = "tr"
             THEN IF Len(c) > 0 THEN c \o <<lineBreak>> ELSE c
             ELSE c
    ELSE IF n.Type = "elem" THEN <<cloneNode(n)>>
    ELSE IF n.Type = "text"
         THEN IF TrimSpace(n.Chars) # <<>> THEN <<Text(n.Chars)>> ELSE <<>>
    ELSE <<>>

\* unwrapTable: the nodes that take the table's place in its parent
unwrapTable(table) == extractTableContent(table)

\* a pass that decides a table before it simplifies what is below it
RECURSIVE simplifyNode_TopDown(_)
simplifyNode_TopDown(n) ==
    IF n.Type = "elem" /\ n.Data = "table" /\ shouldUnwrapTable(n)
    THEN [nodes |-> unwrapTable(n), changed |-> TRUE,
          log |-> <<[table |-> n, content |-> unwrapTable(n)]>>]
    ELSE LET rs == [i \in DOMAIN n.kids |-> simplifyNode_TopDown(n.kids[i])]
         IN  [nodes |-> <<[n EXCEPT !.kids = Flatten([i \in DOMAIN rs |-> rs[i].nodes])]>>,
              changed |-> \E i \in DOMAIN rs : rs[i].changed,
              log |-> Flatten([i \in DOMAIN rs |-> rs[i].log])]

\* simplifyNode: one bottom-up pass.  The result is what stands in the
\* parent's child list where n stood (n itself, or the content of an
\* unwrapped table), whether anything changed, and the unwraps performed.
RECURSIVE simplifyNode(_)
simplifyNode(n) ==
    LET rs == [i \in DOMAIN n.kids |-> simplifyNode(n.kids[i])]
        n2 == [n EXCEPT !.kids = Flatten([i \in DOMAIN rs |-> rs[i].nodes])]
        kidsChanged == \E i \in DOMAIN rs : rs[i].changed
        kidsLog == Flatten([i \in DOMAIN rs |-> rs[i].log])
    IN  IF n.Type = "elem" /\ n.Data = "table" /\ shouldUnwrapTable(n2)
        THEN [nodes |-> unwrapTable(n2), changed |-> TRUE,
              log |-> kidsLog \o <<[table |-> n2, content |-> unwrapTable(n2)]>>]
        ELSE [nodes |-> <<n2>>, changed |-> kidsChanged, log |-> kidsLog]

\* ------------------------------------------------------- parse and render
\* The bytes of a document are modelled as its token stream: start tags
\* (with attributes), end tags, comments and runs of text.
OpenTok(tag, attr) == [k |-> "open", d |-> tag, c |-> <<>>, a |-> attr]
CloseTok(tag) == [k |-> "close", d |-> tag, c |-> <<>>, a |-> <<>>]
TextTok(chars) == [k |-> "text", d |-> "", c |-> chars, a |-> <<>>]
CommentTok == [k |-> "comment", d |-> "", c |-> <<>>, a |-> <<>>]

\* html.Render writes the text of adjacent text nodes back to back: in the
\* bytes there is no boundary between them, they are one run of text
TextRuns(ks) ==
    LET isT(i) == ks[i].Type = "text"
        starts == {i \in DOMAIN ks : ~isT(i) \/ i = 1 \/ ~isT(i - 1)}
        nth(j) == CHOOSE x \in starts : Cardinality({y \in starts : y <= x}) = j
        runEnd(i) == MaxOf({e \in i..Len(ks) : \A m \in i..e : isT(m)})
        chars(i) == Flatten([m \in 1..(runEnd(i) - i + 1) |-> ks[i + m - 1].Chars])
    IN  [j \in 1..Cardinality(starts) |->
            IF isT(nth(j)) THEN Text(chars(nth(j))) ELSE ks[nth(j)]]

RECURSIVE RenderNode(_)
RenderNode(n) ==
    IF n.Type = "text" THEN <<TextTok(n.Chars)>>
    ELSE IF n.Type = "comment" THEN <<CommentTok>>
    ELSE LET runs == TextRuns(n.kids)
             inner == Flatten([i \in DOMAIN runs |-> RenderNode(runs[i])])
         IN  IF n.Type = "elem"
             THEN <<OpenTok(n.Data, n.Attr)>> \o inner \o <<CloseTok(n.Data)>>
             ELSE inner

Render(n) == RenderNode(n)

\* ParseNodes reads sibling nodes up to the end tag of their parent
RECURSIVE ParseNodes(_)
ParseNodes(ts) ==
    IF ts = <<>> THEN [nodes |-> <<>>, rest |-> <<>>]
    ELSE IF ts[1].k = "close" THEN [nodes |-> <<>>, rest |-> Tail(ts)]
    ELSE IF ts[1].k = "open"
         THEN LET inner == ParseNodes(Tail(ts))
                  after == ParseNodes(inner.rest)
              IN  [nodes |-> <<Elem(ts[1].d, ts[1].a, inner.nodes)>> \o after.nodes,
                   rest |-> after.rest]
    ELSE LET after == ParseNodes(Tail(ts))
             leaf == IF ts[1].k = "text" THEN Text(ts[1].c) ELSE Comment
         IN  [nodes |-> <<leaf>> \o after.nodes, rest |-> after.rest]

Parse(bytes) == Document(ParseNodes(bytes).nodes)

\* ----------------------------------------------------------------- inputs
Td(c) == Elem("td", <<>>, c)
Th(c) == Elem("th", <<>>, c)
Tr(cells) == Elem("tr", <<>>, cells)
Div(c) == Elem("div", <<>>, c)
Id(val) == <<[Key |-> "id", Val |-> val]>>

FillRow == Tr(<<Td(<<Text(<<"a">>)>>)>>)
Fill(k) == [i \in 1..k |-> FillRow]
FillCounts == {0} \cup (contentRowThreshold..MaxFill)

MkTable(attr, inHead, special, k) ==
    Elem("table", attr,
         (IF inHead THEN <<Elem("thead", <<>>, special)>> ELSE <<>>)
         \o <<Elem("tbody", <<>>, (IF inHead THEN <<>> ELSE special) \o Fill(k))>>)

LeafCells ==
    { <<>>, <<Text(<<"a">>)>>, <<Text(<<"s">>)>>, <<Text(NbspLiteral)>>,
      <<Text(<<"N2">>)>>, <<Div(<<Text(<<"a">>)>>)>>, <<Comment>> }

HeaderRow == Tr(<<Th(<<Text(<<"a">>)>>)>>)
TwoColRow == Tr(<<Td(<<Text(<<"a">>)>>), Td(<<Text(<<"a">>)>>)>>)

InnerRows == {Tr(<<>>), HeaderRow, TwoColRow} \cup {Tr(<<Td(c)>>) : c \in LeafCells}
InnerAttrs == {<<>>, Id(<<"main">>), Id(<<"x">>)}
InnerTables ==
    {MkTable(a, FALSE, <<r>>, k) : a \in InnerAttrs, r \in InnerRows, k \in FillCounts}
    \cup {MkTable(<<>>, TRUE, <<FillRow>>, 0), Elem("table", <<>>, <<>>)}

OuterCells ==
    LeafCells \cup {<<Text(<<"N1">>)>>}
    \cup {<<t>> : t \in InnerTables}
    \cup {<<Text(<<"N1">>), t>> : t \in InnerTables}
    \cup {<<Div(<<t>>)>> : t \in InnerTables}
OuterRows ==
    {Tr(<<>>), HeaderRow, TwoColRow}
    \cup {Tr(<<Td(c)>>) : c \in OuterCells}
    \cup {Tr(<<Td(<<Text(<<"a">>)>>), Td(<<t>>)>>) : t \in InnerTables}
OuterAttrs ==
    {<<>>, Id(<<"main">>), Id(<<"x", "layout">>), Id(<<"wrapper">>), Id(<<"main", "x">>),
     <<[Key |-> "class", Val |-> <<"main">>]>>}
OuterTables ==
    {MkTable(a, FALSE, <<r>>, k) : a \in OuterAttrs, r \in OuterRows, k \in FillCounts}
    \cup {Elem("table", <<>>, <<>>)}

\* TestUnwrapTableLayoutComplexNesting: three single-row tables, each in a
\* row of id=main, itself in the one cell of id=wrapper; Ws is the
\* indentation between the tags
Ws == Text(<<"n", "s">>)
Width(val) == [Key |-> "width", Val |-> <<val>>]
Section(chars) ==
    Tr(<<Td(<<Ws, Elem("table", <<Width("100%")>>,
                       <<Elem("tbody", <<>>, <<Tr(<<Td(<<Text(chars)>>)>>)>>)>>), Ws>>)>>)
ComplexNestingMain ==
    Elem("table", Id(<<"main">>) \o <<Width("600")>>,
         <<Elem("tbody", <<>>, <<Section(<<"H">>), Section(<<"B">>), Section(<<"F">>)>>)>>)
ComplexNesting ==
    Elem("table", Id(<<"wrapper">>) \o <<Width("100%")>>,
         <<Elem("tbody", <<>>,
                <<Tr(<<Elem("td", <<[Key |-> "align", Val |-> <<"center">>]>>,
                            <<Ws, ComplexNestingMain, Ws>>)>>)>>)>>)

\* TestUnwrapTableLayout/deeply_nested_tables: four tables, one in another
Nest(c) == Elem("table", <<>>, <<Elem("tbody", <<>>, <<Tr(<<Td(<<Ws>> \o c \o <<Ws>>)>>)>>)>>)
DeeplyNested == Nest(<<Nest(<<Nest(<<Nest(<<Elem("p", <<>>, <<Text(<<"a">>)>>)>>)>>)>>)>>)

InputDocs ==
    {Document(<<Elem("html", <<>>, <<Elem("head", <<>>, <<>>), Elem("body", <<>>, <<t>>)>>)>>) :
        t \in OuterTables}
    \cup {Document(<<Elem("html", <<>>, <<Elem("head", <<>>, <<>>),
                                         Elem("body", <<>>, <<Ws, t, Ws>>)>>)>>) :
             t \in {ComplexNesting, DeeplyNested}}

\* ------------------------------------------------- UnwrapTableLayout runs
NoDoc == Document(<<>>)

UnwrapIdle ==
    /\ htmlContent = <<>>
    /\ doc = NoDoc
    /\ pc = "idle"
    /\ iter = 0
    /\ changed = FALSE
    /\ out = <<>>
    /\ status = "idle"
    /\ results = <<>>
    /\ unwrapLog = <<>>

B64Idle == data = <<>> /\ decoded = [returned |-> FALSE, value |-> <<>>]

GmIdle ==
    /\ gmPc = "idle"
    /\ ids = <<>>
    /\ msgIndex = 0
    /\ msg = <<>>
    /\ textBody = <<>>
    /\ htmlBody = <<>>
    /\ content = <<>>
    /\ messages = <<>>
    /\ convLog = <<>>
    /\ gmResult = "idle"
    /\ getLog = <<>>

PaIdle ==
    /\ paPc = "idle"
    /\ paMsg = <<>>
    /\ paIds = <<>>
    /\ paIndex = 0
    /\ paMeta = <<>>
    /\ previews = <<>>
    /\ paData = <<>>
    /\ paResponse = <<>>
    /\ paResult = "idle"

PeIdle == from = <<>> /\ addr = [returned |-> FALSE, Name |-> <<>>, Email |-> <<>>]

SmIdle ==
    /\ smPc = "idle"
    /\ input = <<>>
    /\ listArg = 0
    /\ result = <<>>
    /\ smIndex = 0
    /\ summaries = <<>>
    /\ smResponse = <<>>
    /\ smResult = "idle"

CvIdle ==
    /\ cvPc = <<>>
    /\ kind = <<>>
    /\ tmpName = <<>>
    /\ owner = <<>>
    /\ written = <<>>
    /\ ret = <<>>
    /\ returned = <<>>
    /\ cvLog = <<>>
    /\ cleaned = <<>>

SuIdle == candidate = <<>> /\ decision = [decided |-> FALSE, unwrap |-> FALSE]

UwIdle == uwOrig = <<>> /\ uwParent = <<>> /\ uwPos = 0 /\ uwDone = FALSE

HpIdle ==
    /\ heap = <<>>
    /\ hpPc = "idle"
    /\ hpIter = 0
    /\ hpChanged = FALSE
    /\ cloneLog = <<>>
    /\ removed = <<>>

AuIdle ==
    /\ auPc = <<>>
    /\ auReq = <<>>
    /\ auValid = <<>>
    /\ auRet = <<>>
    /\ auCalls = 0
    /\ mu = 0
    /\ stateStore = <<>>
    /\ oauthTok = <<>>
    /\ persistPath = ""
    /\ onDisk = <<>>
    /\ now = 0
    /\ issued = {}
    /\ validated = <<>>
    /\ exchanges = 0

MnIdle ==
    /\ enableStdio = FALSE
    /\ mainPc = ""
    /\ defers = <<>>
    /\ selected = ""
    /\ httpPc = ""
    /\ httpErr = ""
    /\ stdioPc = ""
    /\ stdioErr = ""
    /\ errHTTPCh = <<>>
    /\ errStdioCh = <<>>
    /\ shutdown = 0
    /\ signals = 0
    /\ inShutdown = FALSE
    /\ ctxDone = FALSE
    /\ mainLog = <<>>

MoreIdle == HpIdle /\ AuIdle /\ MnIdle

ExtIdle == PaIdle /\ PeIdle /\ SmIdle /\ CvIdle /\ SuIdle /\ UwIdle /\ MoreIdle

Init ==
    /\ B64Idle
    /\ GmIdle
    /\ ExtIdle
    /\ htmlContent \in {Render(d) : d \in InputDocs}
    /\ doc = NoDoc
    /\ pc = "parse"
    /\ iter = 0
    /\ changed = FALSE
    /\ out = <<>>
    /\ status = "running"
    /\ results = <<>>
    /\ unwrapLog = <<>>

ParseOk ==
    /\ pc = "parse"
    /\ doc' = Parse(htmlContent)
    /\ pc' = "loop"
    /\ UNCHANGED <<htmlContent, iter, changed, out, status, results, unwrapLog, b64Vars, gm, ext>>

ParseFail ==
    /\ pc = "parse"
    /\ out' = htmlContent
    /\ status' = "parse_error"
    /\ pc' = "done"
    /\ UNCHANGED <<htmlContent, doc, iter, changed, results, unwrapLog, b64Vars, gm, ext>>

\* a loop that goes on after a pass without change
Pass_NoBreak ==
    /\ pc = "loop"
    /\ iter < maxIterations
    /\ \E r \in {simplifyNode(doc)} :
           /\ doc' = r.nodes[1]
           /\ changed' = r.changed
           /\ unwrapLog' = unwrapLog \o r.log
           /\ pc' = IF iter + 1 < maxIterations THEN "loop" ELSE "render"
    /\ iter' = iter + 1
    /\ UNCHANGED <<htmlContent, out, status, results, b64Vars, gm, ext>>

Pass ==
    /\ pc = "loop"
    /\ iter < maxIterations
    /\ \E r \in {simplifyNode(doc)} :
           /\ doc' = r.nodes[1]
           /\ changed' = r.changed
           /\ unwrapLog' = unwrapLog \o r.log
           /\ pc' = IF r.changed /\ iter + 1 < maxIterations THEN "loop" ELSE "render"
    /\ iter' = iter + 1
    /\ UNCHANGED <<htmlContent, out, status, results, b64Vars, gm, ext>>

RenderOk ==
    /\ pc = "render"
    /\ out' = Render(doc)
    /\ status' = "ok"
    /\ pc' = "done"
    /\ UNCHANGED <<htmlContent, doc, iter, changed, results, unwrapLog, b64Vars, gm, ext>>

\* a render failure that returns what was written so far instead of the input
RenderFail_Partial ==
    /\ pc = "render"
    /\ out' = <<>>
    /\ status' = "render_error"
    /\ pc' = "done"
    /\ UNCHANGED <<htmlContent, doc, iter, changed, results, unwrapLog, b64Vars, gm, ext>>

RenderFail ==
    /\ pc = "render"
    /\ out' = htmlContent
    /\ status' = "render_error"
    /\ pc' = "done"
    /\ UNCHANGED <<htmlContent, doc, iter, changed, results, unwrapLog, b64Vars, gm, ext>>

\* the caller feeds the result back in (result2 := Unwrap(result1), ...).
\* After a failed run the result is the input itself, so feeding it back
\* is the first run again; only successful results are fed back.
Again ==
    /\ pc = "done"
    /\ status = "ok"
    /\ Len(results) + 1 < MaxRuns
    /\ results' = Append(results, [out |-> out, status |-> status])
    /\ htmlContent' = out
    /\ doc' = NoDoc
    /\ pc' = "parse"
    /\ iter' = 0
    /\ changed' = FALSE
    /\ out' = <<>>
    /\ status' = "running"
    /\ unwrapLog' = <<>>
    /\ UNCHANGED <<b64Vars, gm, ext>>

Next == ParseOk \/ ParseFail \/ Pass \/ RenderOk \/ RenderFail \/ Again

Spec == Init /\ [][Next]_vars

TypeOK == pc \in {"idle", "parse", "loop", "render", "done"} /\ iter \in 0..maxIterations

\* ------------------------------------------------------- decodeBase64URL
\* Strings are sequences of character codes, decoded data sequences of
\* bytes, so that string(decoded) and data are values of one kind.
PadChar == 61
IsNewline(c) == c = 10 \/ c = 13

\* the URL-safe alphabet of encoding/base64: A-Z a-z 0-9 - _
InAlphabet(c) ==
    \/ c \in 65..90
    \/ c \in 97..122
    \/ c \in 48..57
    \/ c = 45
    \/ c = 95

B64Val(c) ==
    IF c \in 65..90 THEN c - 65
    ELSE IF c \in 97..122 THEN c - 97 + 26
    ELSE IF c \in 48..57 THEN c - 48 + 52
    ELSE IF c = 45 THEN 62
    ELSE 63

StripNewlines(s) == SelectSeq(s, LAMBDA c : ~IsNewline(c))

\* the bytes of one quantum of 2, 3 or 4 characters (trailing bits are not
\* checked: the encodings are not Strict)
QuantumBytes(q) ==
    LET v(i) == IF i <= Len(q) THEN B64Val(q[i]) ELSE 0
        val == v(1) * 262144 + v(2) * 4096 + v(3) * 64 + v(4)
        all == <<val \div 65536, (val \div 256) % 256, val % 256>>
    IN  SubSeq(all, 1, Len(q) - 1)

RECURSIVE DecodeQuanta(_)
DecodeQuanta(t) ==
    IF Len(t) = 0 THEN <<>>
    ELSE IF Len(t) <= 4 THEN QuantumBytes(t)
    ELSE QuantumBytes(SubSeq(t, 1, 4)) \o DecodeQuanta(SubSeq(t, 5, Len(t)))

DecodeError == [err |-> TRUE, bytes |-> <<>>]

\* base64.URLEncoding.DecodeString: padded; \r and \n are ignored
URLEncodingDecode(s) ==
    LET t == StripNewlines(s)
        n == Len(t)
        pads == IF n >= 2 /\ t[n] = PadChar /\ t[n - 1] = PadChar THEN 2
                ELSE IF n >= 1 /\ t[n] = PadChar THEN 1
                ELSE 0
        body == SubSeq(t, 1, n - pads)
    IN  IF n % 4 # 0 THEN DecodeError
        ELSE IF \E i \in DOMAIN body : ~InAlphabet(body[i]) THEN DecodeError
        ELSE [err |-> FALSE, bytes |-> DecodeQuanta(body)]

\* base64.RawURLEncoding.DecodeString: no padding character at all
RawURLEncodingDecode(s) ==
    LET t == StripNewlines(s)
    IN  IF \E i \in DOMAIN t : ~InAlphabet(t[i]) THEN DecodeError
        ELSE IF Len(t) % 4 = 1 THEN DecodeError
        ELSE [err |-> FALSE, bytes |-> DecodeQuanta(t)]

\* no second attempt with the unpadded encoding
decodeBase64URL_NoRaw(d) ==
    IF ~URLEncodingDecode(d).err THEN URLEncodingDecode(d).bytes
    ELSE d

decodeBase64URL(d) ==
    IF ~URLEncodingDecode(d).err THEN URLEncodingDecode(d).bytes
    ELSE IF ~RawURLEncodingDecode(d).err THEN RawURLEncodingDecode(d).bytes
    ELSE d

\* inputs: all short strings over a few characters: 'A' 'Q' '_' (alphabet),
\* '=' (padding), '+' (not in the URL-safe alphabet), '\n' (ignored)
DataChars == {65, 81, 95, 61, 43, 10}
RECURSIVE SeqsUpTo(_, _)
SeqsUpTo(S, n) ==
    IF n = 0 THEN {<<>>}
    ELSE LET shorter == SeqsUpTo(S, n - 1)
         IN  shorter \cup {Append(q, c) : q \in {x \in shorter : Len(x) = n - 1}, c \in S}
DataStrings == SeqsUpTo(DataChars, MaxDataLen)

\* the encoder of the same alphabet, for the inputs a mail provider sends
B64Char(v) ==
    IF v < 26 THEN v + 65
    ELSE IF v < 52 THEN v - 26 + 97
    ELSE IF v < 62 THEN v - 52 + 48
    ELSE IF v = 62 THEN 45
    ELSE 95

EncodeQuantum(b) ==
    LET x(i) == IF i <= Len(b) THEN b[i] ELSE 0
        val == x(1) * 65536 + x(2) * 256 + x(3)
        all == <<B64Char(val \div 262144), B64Char((val \div 4096) % 64),
                 B64Char((val \div 64) % 64), B64Char(val % 64)>>
    IN  SubSeq(all, 1, Len(b) + 1)

RECURSIVE RawURLEncode(_)
RawURLEncode(b) ==
    IF Len(b) = 0 THEN <<>>
    ELSE IF Len(b) <= 3 THEN EncodeQuantum(b)
    ELSE EncodeQuantum(SubSeq(b, 1, 3)) \o RawURLEncode(SubSeq(b, 4, Len(b)))

URLEncode(b) ==
    LET raw == RawURLEncode(b)
    IN  raw \o [i \in 1..((4 - (Len(raw) % 4)) % 4) |-> PadChar]

ByteValues == {0, 65, 255}
ByteStrings == SeqsUpTo(ByteValues, MaxBytesLen)

InitB64 ==
    /\ UnwrapIdle
    /\ GmIdle
    /\ ExtIdle
    /\ data \in DataStrings \cup {URLEncode(b) : b \in ByteStrings}
                            \cup {RawURLEncode(b) : b \in ByteStrings}
    /\ decoded = [returned |-> FALSE, value |-> <<>>]

Decode ==
    /\ ~decoded.returned
    /\ decoded' = [returned |-> TRUE, value |-> decodeBase64URL(data)]
    /\ UNCHANGED <<data, unwrapVars, gm, ext>>

NextB64 == Decode

SpecB64 == InitB64 /\ [][NextB64]_vars

\* ------------------------------------------------------------ GetMessages
\* A gmail.MessagePart is [MimeType, Filename, PartId, Body, Parts]; Body is
\* [isNil, Data, AttachmentId, Size], isNil standing for a nil pointer.
NilBody == [isNil |-> TRUE, Data |-> <<>>, AttachmentId |-> "", Size |-> 0]
DataBody(d) == [isNil |-> FALSE, Data |-> d, AttachmentId |-> "", Size |-> Len(d)]
AttachmentBody(id, size) == [isNil |-> FALSE, Data |-> <<>>, AttachmentId |-> id, Size |-> size]
Part(mime, filename, partId, body, parts) ==
    [MimeType |-> mime, Filename |-> filename, PartId |-> partId, Body |-> body, Parts |-> parts]

NoBodies == [textBody |-> <<>>, htmlBody |-> <<>>]

extractBodyFromPart(part) ==
    IF part.Body.isNil \/ part.Body.Data = <<>> THEN NoBodies
    ELSE IF part.MimeType = "text/plain"
         THEN [textBody |-> decodeBase64URL(part.Body.Data), htmlBody |-> <<>>]
    ELSE IF part.MimeType = "text/html"
         THEN [textBody |-> <<>>, htmlBody |-> decodeBase64URL(part.Body.Data)]
    ELSE NoBodies

\* keep the bodies found so far, take the other's where none was found
FirstFound(acc, found) ==
    [textBody |-> IF acc.textBody = <<>> THEN found.textBody ELSE acc.textBody,
     htmlBody |-> IF acc.htmlBody = <<>> THEN found.htmlBody ELSE acc.htmlBody]

RECURSIVE extractMessageBodies(_), BodiesOfParts(_, _)
extractMessageBodies(payload) ==
    BodiesOfParts(payload.Parts, extractBodyFromPart(payload))

\* the loop over payload.Parts of extractMessageBodies
BodiesOfParts(parts, acc) ==
    IF parts = <<>> THEN acc
    ELSE LET part == Head(parts)
             direct == FirstFound(acc, extractBodyFromPart(part))
             nested == IF Len(part.Parts) > 0
                       THEN FirstFound(direct, extractMessageBodies(part))
                       ELSE direct
         IN  BodiesOfParts(Tail(parts), nested)

RECURSIVE extractAttachments(_)
extractAttachments(payload) ==
    LET own == IF ~payload.Body.isNil /\ payload.Body.AttachmentId # ""
               THEN <<[ID |-> payload.Body.AttachmentId, Filename |-> payload.Filename,
                       MimeType |-> payload.MimeType, Size |-> payload.Body.Size]>>
               ELSE <<>>
        OfPart(part) ==
            (IF ~part.Body.isNil /\ part.Body.AttachmentId # ""
             THEN <<[ID |-> part.PartId, Filename |-> part.Filename,
                     MimeType |-> part.MimeType, Size |-> part.Body.Size]>>
             ELSE <<>>)
            \o (IF Len(part.Parts) > 0 THEN extractAttachments(part) ELSE <<>>)
    IN  own \o Flatten([i \in DOMAIN payload.Parts |-> OfPart(payload.Parts[i])])

\* the HTML body preferred over the plain one
previewText_HtmlFirst(text, html) ==
    IF html # <<>> THEN [convert |-> TRUE, BodyText |-> <<>>]
    ELSE [convert |-> FALSE, BodyText |-> text]

\* previewText: the body text, and whether conv.HTML2MD is to be called
previewText(text, html) ==
    IF text # <<>> THEN [convert |-> FALSE, BodyText |-> text]
    ELSE IF html = <<>> THEN [convert |-> FALSE, BodyText |-> <<>>]
    ELSE [convert |-> TRUE, BodyText |-> <<>>]

\* the Markdown the external converter returns for an HTML body: some other
\* text (the character '#' followed by the body)
Markdown(html) == <<35>> \o html

\* ---- inputs: part trees
PlainA == Part("text/plain", "", "0", DataBody(<<81, 81, 61, 61>>), <<>>)
PlainB == Part("text/plain", "", "1", DataBody(<<81, 103>>), <<>>)
PlainCorrupt == Part("text/plain", "", "2", DataBody(<<43>>), <<>>)
HtmlH == Part("text/html", "", "3", DataBody(<<83, 65, 61, 61>>), <<>>)
HtmlI == Part("text/html", "", "4", DataBody(<<83, 81>>), <<>>)
Att1 == Part("application/pdf", "f1", "5", AttachmentBody("att1", 1), <<>>)
Att2 == Part("text/csv", "f2", "6", AttachmentBody("att2", 2), <<>>)
LeafParts == {PlainA, PlainB, PlainCorrupt, HtmlH, HtmlI, Att1, Att2}

Multipart(parts) == Part("multipart/alternative", "", "7", NilBody, parts)
AttachedMessage(parts) == Part("message/rfc822", "fm", "8", AttachmentBody("attM", 3), parts)

NestedParts == {<<p>> : p \in LeafParts} \cup {<<Att1, Att2>>, <<PlainA, HtmlH>>}
ChildParts ==
    LeafParts \cup {Multipart(g) : g \in NestedParts} \cup {AttachedMessage(g) : g \in NestedParts}
RootParts == {<<>>} \cup {<<p>> : p \in ChildParts} \cup {<<p, q>> : p \in ChildParts, q \in ChildParts}
Payloads ==
    {Part("multipart/mixed", "", "", NilBody, ps) : ps \in RootParts}
    \cup {Part("text/plain", "", "", DataBody(<<81, 119>>), ps) : ps \in RootParts}
    \cup {Part("application/pdf", "fr", "", AttachmentBody("attR", 4), ps) : ps \in RootParts}

NoMessage == [hasPayload |-> FALSE, Payload |-> Part("", "", "", NilBody, <<>>)]
Message(payload) == [hasPayload |-> TRUE, Payload |-> payload]
NoContent == [Summary |-> [ID |-> ""], BodyText |-> <<>>, Attachments |-> <<>>]

\* the mailbox behind svc.GetMessage: m1 is any message, m2 an HTML-only one
Mailbox(first) == [m1 |-> first, m2 |-> Message(Part("multipart/mixed", "", "", NilBody, <<HtmlH, Att1>>))]
MessageIDSeqs == {s \in SeqsUpTo({"m1", "m2"}, MaxMessages) : s # <<>> => s[1] = "m1"}

InitGm ==
    /\ UnwrapIdle
    /\ B64Idle
    /\ ExtIdle
    /\ gmPc = "fetch"
    /\ ids \in MessageIDSeqs
    /\ msgIndex = 1
    /\ msg \in {Message(p) : p \in Payloads} \cup {NoMessage}
    /\ textBody = <<>>
    /\ htmlBody = <<>>
    /\ content = NoContent
    /\ messages = <<>>
    /\ convLog = <<>>
    /\ gmResult = "running"
    /\ getLog = <<>>

\* svc.GetMessage succeeded; msg.Payload == nil skips the extraction
GetMessageOk ==
    /\ gmPc = "fetch"
    /\ msgIndex <= Len(ids)
    /\ \E m \in {IF ids[msgIndex] = "m1" THEN msg ELSE Mailbox(msg).m2} :
          IF m.hasPayload
          THEN \E b \in {extractMessageBodies(m.Payload)} :
                  /\ textBody' = b.textBody
                  /\ htmlBody' = b.htmlBody
                  /\ content' = [Summary |-> [ID |-> ids[msgIndex]], BodyText |-> <<>>,
                                  Attachments |-> extractAttachments(m.Payload)]
                  /\ gmPc' = "preview"
          ELSE /\ textBody' = <<>>
               /\ htmlBody' = <<>>
               /\ content' = [NoContent EXCEPT !.Summary.ID = ids[msgIndex]]
               /\ gmPc' = "append"
    /\ getLog' = Append(getLog, ids[msgIndex])
    /\ UNCHANGED <<ids, msgIndex, msg, messages, convLog, gmResult, unwrapVars, b64Vars, ext>>

\* the messages built so far are returned with the error
GetMessageFail_Partial ==
    /\ gmPc = "fetch"
    /\ msgIndex <= Len(ids)
    /\ getLog' = Append(getLog, ids[msgIndex])
    /\ gmPc' = "done"
    /\ gmResult' = "error"
    /\ UNCHANGED <<ids, msgIndex, msg, textBody, htmlBody, content, messages, convLog,
                   unwrapVars, b64Vars, ext>>

GetMessageFail ==
    /\ gmPc = "fetch"
    /\ msgIndex <= Len(ids)
    /\ getLog' = Append(getLog, ids[msgIndex])
    /\ gmPc' = "done"
    /\ gmResult' = "error"
    /\ messages' = <<>>
    /\ UNCHANGED <<ids, msgIndex, msg, textBody, htmlBody, content, convLog, unwrapVars, b64Vars, ext>>

\* previewText returns without calling the converter
PreviewDirect ==
    /\ gmPc = "preview"
    /\ ~previewText(textBody, htmlBody).convert
    /\ content' = [content EXCEPT !.BodyText = previewText(textBody, htmlBody).BodyText]
    /\ gmPc' = "append"
    /\ UNCHANGED <<getLog, ids, msgIndex, msg, textBody, htmlBody, messages, convLog, gmResult,
                   unwrapVars, b64Vars, ext>>

ConvertOk ==
    /\ gmPc = "preview"
    /\ previewText(textBody, htmlBody).convert
    /\ convLog' = Append(convLog, htmlBody)
    /\ content' = [content EXCEPT !.BodyText = Markdown(htmlBody)]
    /\ gmPc' = "append"
    /\ UNCHANGED <<getLog, ids, msgIndex, msg, textBody, htmlBody, messages, gmResult,
                   unwrapVars, b64Vars, ext>>

ConvertFail ==
    /\ gmPc = "preview"
    /\ previewText(textBody, htmlBody).convert
    /\ convLog' = Append(convLog, htmlBody)
    /\ gmPc' = "done"
    /\ gmResult' = "error"
    /\ messages' = <<>>
    /\ UNCHANGED <<getLog, ids, msgIndex, msg, textBody, htmlBody, content, unwrapVars, b64Vars, ext>>

AppendMessage ==
    /\ gmPc = "append"
    /\ messages' = Append(messages, content)
    /\ msgIndex' = msgIndex + 1
    /\ gmPc' = "fetch"
    /\ UNCHANGED <<getLog, ids, msg, textBody, htmlBody, content, convLog, gmResult, unwrapVars, b64Vars, ext>>

ReturnMessages ==
    /\ gmPc = "fetch"
    /\ msgIndex > Len(ids)
    /\ gmPc' = "done"
    /\ gmResult' = "ok"
    /\ UNCHANGED <<getLog, ids, msgIndex, msg, textBody, htmlBody, content, messages, convLog,
                   unwrapVars, b64Vars, ext>>

NextGm ==
    \/ GetMessageOk \/ GetMessageFail \/ PreviewDirect \/ ConvertOk \/ ConvertFail
    \/ AppendMessage \/ ReturnMessages

SpecGm == InitGm /\ [][NextGm]_vars

\* ------------------------------------------------------ PreviewAttachments
\* Here a MIME type and a file name are sequences of pieces ("text/" then
\* "plain"; "report" then ".pdf"), so that strings.HasPrefix and
\* strings.HasSuffix look at the first and the last piece.  An error is its
\* message, "" standing for nil.
HasPrefix(s, piece) == Len(s) > 0 /\ s[1] = piece
HasSuffix(s, piece) == Len(s) > 0 /\ s[Len(s)] = piece

TextPlain == <<"text/", "plain">>
ApplicationPdf == <<"application/", "pdf">>
OctetStream == <<"application/", "octet-stream">>
MultipartMixed == <<"multipart/", "mixed">>

\* a nil *gmail.MessagePart, or a pointer to a part
NilPart == [isNil |-> TRUE, part |-> Part(<<>>, <<>>, "", NilBody, <<>>)]
PartPtr(p) == [isNil |-> FALSE, part |-> p]

RECURSIVE findAttachmentMetadata(_, _), FindInParts(_, _)
findAttachmentMetadata(payload, partID) ==
    IF ~payload.Body.isNil /\ payload.PartId = partID THEN PartPtr(payload)
    ELSE FindInParts(payload.Parts, partID)

FindInParts(parts, partID) ==
    IF parts = <<>> THEN NilPart
    ELSE IF ~findAttachmentMetadata(Head(parts), partID).isNil
         THEN findAttachmentMetadata(Head(parts), partID)
    ELSE FindInParts(Tail(parts), partID)

\* base64.URLEncoding.DecodeString, then base64.RawURLEncoding.DecodeString
DecodeAttachment(d) ==
    IF ~URLEncodingDecode(d).err THEN URLEncodingDecode(d) ELSE RawURLEncodingDecode(d)

\* an unrecognised type yields an empty string and no error
extractAttachmentContent_NoDefault(d, mimeType, filename, pdf) ==
    IF DecodeAttachment(d).err THEN [val |-> <<>>, err |-> "failed to decode attachment"]
    ELSE IF HasPrefix(mimeType, "text/") THEN [val |-> DecodeAttachment(d).bytes, err |-> ""]
    ELSE IF mimeType = ApplicationPdf THEN pdf
    ELSE IF HasSuffix(filename, ".txt") \/ HasSuffix(filename, ".md")
         THEN [val |-> DecodeAttachment(d).bytes, err |-> ""]
    ELSE IF HasSuffix(filename, ".csv") THEN [val |-> DecodeAttachment(d).bytes, err |-> ""]
    ELSE [val |-> <<>>, err |-> ""]

\* extractAttachmentContent returns (string, error); pdf is what
\* conv.PDF2MD returns for the decoded data
extractAttachmentContent(d, mimeType, filename, pdf) ==
    IF DecodeAttachment(d).err THEN [val |-> <<>>, err |-> "failed to decode attachment"]
    ELSE IF HasPrefix(mimeType, "text/") THEN [val |-> DecodeAttachment(d).bytes, err |-> ""]
    ELSE IF mimeType = ApplicationPdf THEN pdf
    ELSE IF HasSuffix(filename, ".txt") \/ HasSuffix(filename, ".md")
         THEN [val |-> DecodeAttachment(d).bytes, err |-> ""]
    ELSE IF HasSuffix(filename, ".csv") THEN [val |-> DecodeAttachment(d).bytes, err |-> ""]
    ELSE [val |-> <<>>, err |-> "unsupported file type"]

AttachmentPreview(id, filename, mimeType, r) ==
    [ID |-> id, Filename |-> filename, MimeType |-> mimeType,
     Content |-> IF r.err # "" THEN <<>> ELSE r.val,
     Error |-> r.err]

\* inputs: a message with an inline body, attachments of every kind the
\* switch tells apart, and a nested multipart
InlineBody == Part(TextPlain, <<>>, "0", DataBody(<<81, 81, 61, 61>>), <<>>)
TxtAttachment == Part(TextPlain, <<"document", ".txt">>, "1", AttachmentBody("attach-txt", 100), <<>>)
PdfAttachment == Part(ApplicationPdf, <<"report", ".pdf">>, "2", AttachmentBody("attach-pdf", 200), <<>>)
BinAttachment == Part(OctetStream, <<"x", ".bin">>, "3.1", AttachmentBody("attach-bin", 3), <<>>)
CsvAttachment == Part(OctetStream, <<"d", ".csv">>, "3.2", AttachmentBody("attach-csv", 4), <<>>)
MdAttachment == Part(OctetStream, <<"notes", ".md">>, "3.3", AttachmentBody("attach-md", 5), <<>>)
NestedMultipart == Part(MultipartMixed, <<>>, "3", NilBody, <<BinAttachment, CsvAttachment, MdAttachment>>)
PaPayload ==
    Part(MultipartMixed, <<>>, "", NilBody, <<InlineBody, TxtAttachment, PdfAttachment, NestedMultipart>>)

PartIDs == {"0", "1", "2", "3", "3.1", "3.2", "3.3", "9"}
AttachmentIDSeqs == SeqsUpTo(PartIDs, MaxAttachmentIds)

\* what svc.GetAttachment may hand back in Data: nothing, padded base64,
\* unpadded base64, a string outside the alphabet
AttachmentData == {<<>>, <<81, 81, 61, 61>>, <<81, 81>>, <<43>>}
\* what conv.PDF2MD may return: text, no text, an error
PdfOutcomes ==
    {[val |-> <<80>>, err |-> ""], [val |-> <<>>, err |-> ""], [val |-> <<>>, err |-> "conversion failed"]}

NoMeta == [attachID |-> "", fileName |-> <<>>, mimeType |-> <<>>]

InitPa ==
    /\ UnwrapIdle
    /\ MoreIdle
    /\ B64Idle
    /\ GmIdle
    /\ PeIdle
    /\ SmIdle
    /\ CvIdle
    /\ SuIdle
    /\ UwIdle
    /\ paPc = "start"
    /\ paMsg \in {Message(PaPayload), NoMessage}
    /\ paIds \in AttachmentIDSeqs
    /\ paIndex = 1
    /\ paMeta = NoMeta
    /\ previews = <<>>
    /\ paData = <<>>
    /\ paResponse = <<>>
    /\ paResult = "running"

PaGetMessageOk ==
    /\ paPc = "start"
    /\ paPc' = "find"
    /\ UNCHANGED <<paMsg, paIds, paIndex, paMeta, previews, paData, paResponse, paResult,
                   notPa>>

PaGetMessageFail ==
    /\ paPc = "start"
    /\ paPc' = "done"
    /\ paResult' = "get message failed"
    /\ paResponse' = <<>>
    /\ UNCHANGED <<paMsg, paIds, paIndex, paMeta, previews, paData, notPa>>

\* payload.Body with a nil payload, or content.Body with a nil content:
\* a nil pointer dereference, the handler does not return
PaFindPanic ==
    /\ paPc = "find"
    /\ paIndex <= Len(paIds)
    /\ \/ ~paMsg.hasPayload
       \/ findAttachmentMetadata(paMsg.Payload, paIds[paIndex]).isNil
    /\ paPc' = "done"
    /\ paResult' = "panic"
    /\ UNCHANGED <<paMsg, paIds, paIndex, paMeta, previews, paData, paResponse,
                   notPa>>

PaFindNoAttachment ==
    /\ paPc = "find"
    /\ paIndex <= Len(paIds)
    /\ paMsg.hasPayload
    /\ \E c \in {findAttachmentMetadata(paMsg.Payload, paIds[paIndex])} :
          /\ ~c.isNil
          /\ c.part.Body.isNil \/ c.part.Body.AttachmentId = ""
    /\ paPc' = "done"
    /\ paResult' = "No attachmentID found"
    /\ paResponse' = <<>>
    /\ UNCHANGED <<paMsg, paIds, paIndex, paMeta, previews, paData, notPa>>

PaFindOk ==
    /\ paPc = "find"
    /\ paIndex <= Len(paIds)
    /\ paMsg.hasPayload
    /\ \E c \in {findAttachmentMetadata(paMsg.Payload, paIds[paIndex])} :
          /\ ~c.isNil
          /\ ~c.part.Body.isNil
          /\ c.part.Body.AttachmentId # ""
          /\ paMeta' = [attachID |-> c.part.Body.AttachmentId,
                        fileName |-> c.part.Filename,
                        mimeType |-> c.part.MimeType]
    /\ paPc' = "fetch"
    /\ UNCHANGED <<paMsg, paIds, paIndex, previews, paData, paResponse, paResult,
                   notPa>>

PaGetAttachmentFail ==
    /\ paPc = "fetch"
    /\ paPc' = "done"
    /\ paResult' = "get attachment failed"
    /\ paResponse' = <<>>
    /\ UNCHANGED <<paMsg, paIds, paIndex, paMeta, previews, paData, notPa>>

\* svc.GetAttachment succeeded: extract, fill the preview, append it
PaPreview ==
    /\ paPc = "fetch"
    /\ \E d \in AttachmentData, pdf \in PdfOutcomes :
          /\ previews' = Append(previews,
                AttachmentPreview(paIds[paIndex], paMeta.fileName, paMeta.mimeType,
                    extractAttachmentContent(d, paMeta.mimeType, paMeta.fileName, pdf)))
          /\ paData' = Append(paData, d)
    /\ paIndex' = paIndex + 1
    /\ paPc' = "find"
    /\ UNCHANGED <<paMsg, paIds, paMeta, paResponse, paResult, notPa>>

PaReturn ==
    /\ paPc = "find"
    /\ paIndex > Len(paIds)
    /\ paPc' = "done"
    /\ paResult' = "ok"
    /\ paResponse' = previews
    /\ UNCHANGED <<paMsg, paIds, paIndex, paMeta, previews, paData, notPa>>

NextPa ==
    \/ PaGetMessageOk \/ PaGetMessageFail \/ PaFindPanic \/ PaFindNoAttachment \/ PaFindOk
    \/ PaGetAttachmentFail \/ PaPreview \/ PaReturn

SpecPa == InitPa /\ [][NextPa]_vars

\* ------------------------------------------------------- parseEmailAddress
\* A header value is a sequence of characters: "a" a visible character,
\* "s" a space, "<", ">", "\"" and ",".  Indices are Go's: they start at 0,
\* and -1 means not found.
Index(s, c) ==
    IF \E i \in DOMAIN s : s[i] = c
    THEN MinOf({i \in DOMAIN s : s[i] = c}) - 1
    ELSE -1

\* s[lo:hi] and s[lo:]
Slice(s, lo, hi) == SubSeq(s, lo + 1, hi)
SliceFrom(s, lo) == SubSeq(s, lo + 1, Len(s))

\* strings.Trim(s, "\""): every leading and trailing quote is cut
TrimQuotes(s) ==
    LET keep == {i \in DOMAIN s : s[i] # "\""}
    IN  IF keep = {} THEN <<>> ELSE SubSeq(s, MinOf(keep), MaxOf(keep))

EmailAddress(name, email) == [Name |-> name, Email |-> email]

parseEmailAddress(value) ==
    LET idx == Index(value, "<")
        endIdx == Index(SliceFrom(value, idx), ">")
    IN  IF idx # -1
        THEN EmailAddress(TrimQuotes(TrimSpace(Slice(value, 0, idx))),
                          IF endIdx # -1 THEN TrimSpace(Slice(value, idx + 1, idx + endIdx))
                          ELSE <<>>)
        ELSE EmailAddress(TrimQuotes(<<>>), TrimSpace(value))

HeaderChars == {"a", "s", "<", ">", "\"", ","}
HeaderValues == SeqsUpTo(HeaderChars, MaxHeaderLen)

InitPe ==
    /\ UnwrapIdle
    /\ MoreIdle
    /\ B64Idle
    /\ GmIdle
    /\ PaIdle
    /\ SmIdle
    /\ CvIdle
    /\ SuIdle
    /\ UwIdle
    /\ from \in HeaderValues
    /\ addr = [returned |-> FALSE, Name |-> <<>>, Email |-> <<>>]

ParseAddress ==
    /\ ~addr.returned
    /\ \E a \in {parseEmailAddress(from)} :
          addr' = [returned |-> TRUE, Name |-> a.Name, Email |-> a.Email]
    /\ UNCHANGED <<from, notPe>>

NextPe == ParseAddress

SpecPe == InitPe /\ [][NextPe]_vars

\* ----------------------------------------------------------- SearchMessages
\* strings.Split(s, ","): the pieces between the commas, in order
CommaCuts(s) == {0, Len(s) + 1} \cup {i \in DOMAIN s : s[i] = ","}
RECURSIVE SplitFrom(_, _)
SplitFrom(s, cut) ==
    LET nextCut == MinOf({c \in CommaCuts(s) : c > cut})
    IN  IF nextCut = Len(s) + 1 THEN <<SubSeq(s, cut + 1, Len(s))>>
        ELSE <<SubSeq(s, cut + 1, nextCut - 1)>> \o SplitFrom(s, nextCut)
Split(s) == SplitFrom(s, 0)

parseEmailAddressList(addresses) ==
    IF addresses = <<>> THEN <<>>
    ELSE LET parts == Split(addresses)
             kept == SelectSeq(parts, LAMBDA part : TrimSpace(part) # <<>>)
         IN  [i \in DOMAIN kept |-> parseEmailAddress(TrimSpace(kept[i]))]

Header(name, value) == [Name |-> name, Value |-> value]

RECURSIVE extractHeadersToSummary(_, _)
extractHeadersToSummary(headers, summary) ==
    IF headers = <<>> THEN summary
    ELSE LET header == Head(headers)
             next == IF header.Name = "From"
                         THEN [summary EXCEPT !.From = parseEmailAddress(header.Value)]
                     ELSE IF header.Name = "To"
                         THEN [summary EXCEPT !.To = parseEmailAddressList(header.Value)]
                     ELSE IF header.Name = "Cc"
                         THEN [summary EXCEPT !.CC = parseEmailAddressList(header.Value)]
                     ELSE IF header.Name = "Subject"
                         THEN [summary EXCEPT !.Subject = header.Value]
                     ELSE IF header.Name = "Date"
                         THEN [summary EXCEPT !.Timestamp = header.Value]
                     ELSE summary
         IN  extractHeadersToSummary(Tail(headers), next)

\* a gmail.Message as GetMessageMetadata returns it; a nil Payload or nil
\* Headers has hasHeaders FALSE
Metadata(id, threadId, snippet, hasHeaders, headers) ==
    [Id |-> id, ThreadId |-> threadId, Snippet |-> snippet,
     hasHeaders |-> hasHeaders, Headers |-> headers]

extractMessageSummary(m) ==
    LET summary == [ID |-> m.Id, ThreadID |-> m.ThreadId, Snippet |-> m.Snippet,
                    Timestamp |-> <<>>, From |-> EmailAddress(<<>>, <<>>),
                    To |-> <<>>, CC |-> <<>>, Subject |-> <<>>]
    IN  IF m.hasHeaders THEN extractHeadersToSummary(m.Headers, summary) ELSE summary

normalizeMaxResults(maxResults) ==
    IF maxResults = 0 THEN defaultMaxResults
    ELSE IF maxResults > maxMaxResults THEN maxMaxResults
    ELSE maxResults

\* inputs: the mailbox behind svc.GetMessageMetadata
MetadataOf(id) ==
    IF id = "m1"
    THEN Metadata("m1", "t-m1", "snippet m1", TRUE,
            <<Header("From", <<"\"", "a", "\"", "s", "<", "a", ">">>),
              Header("To", <<"a", ",", "s", "a", "s", "<", "a", ">", ",">>),
              Header("X-Mailer", <<"a">>),
              Header("Subject", <<"a", "s", "a">>),
              Header("Date", <<"a">>)>>)
    ELSE IF id = "m2"
    THEN Metadata("m2", "t-m2", "snippet m2", TRUE,
            <<Header("From", <<"a">>), Header("Cc", <<"a", ",", "a">>),
              Header("From", <<"a", "a">>)>>)
    ELSE Metadata(id, "t-m3", "", FALSE, <<>>)

ListedIDs == {"m1", "m2", "m3"}
ListResults ==
    {[Messages |-> l, NextPageToken |-> t] : l \in SeqsUpTo(ListedIDs, MaxListed), t \in {"", "tok"}}
MaxResultsInputs == {-1, 0, 1, maxMaxResults, maxMaxResults + 1}

NoList == [Messages |-> <<>>, NextPageToken |-> ""]
SearchMessagesResponse(msgs, token, total) ==
    [Messages |-> msgs, NextPageToken |-> token, TotalResults |-> total]
EmptySearchResponse == SearchMessagesResponse(<<>>, "", 0)

InitSm ==
    /\ UnwrapIdle
    /\ MoreIdle
    /\ B64Idle
    /\ GmIdle
    /\ PaIdle
    /\ PeIdle
    /\ CvIdle
    /\ SuIdle
    /\ UwIdle
    /\ smPc = "list"
    /\ input \in {[MaxResults |-> n] : n \in MaxResultsInputs}
    /\ listArg = 0
    /\ result = NoList
    /\ smIndex = 1
    /\ summaries = <<>>
    /\ smResponse = EmptySearchResponse
    /\ smResult = "running"

ListMessagesOk ==
    /\ smPc = "list"
    /\ listArg' = normalizeMaxResults(input.MaxResults)
    /\ result' \in ListResults
    /\ smPc' = "metadata"
    /\ UNCHANGED <<input, smIndex, summaries, smResponse, smResult, notSm>>

ListMessagesFail ==
    /\ smPc = "list"
    /\ listArg' = normalizeMaxResults(input.MaxResults)
    /\ smPc' = "done"
    /\ smResult' = "error"
    /\ smResponse' = EmptySearchResponse
    /\ UNCHANGED <<input, result, smIndex, summaries, notSm>>

GetMessageMetadataOk ==
    /\ smPc = "metadata"
    /\ smIndex <= Len(result.Messages)
    /\ summaries' = Append(summaries, extractMessageSummary(MetadataOf(result.Messages[smIndex])))
    /\ smIndex' = smIndex + 1
    /\ UNCHANGED <<smPc, input, listArg, result, smResponse, smResult, notSm>>

\* the message whose metadata cannot be fetched is left out
GetMessageMetadataFail_Skip ==
    /\ smPc = "metadata"
    /\ smIndex <= Len(result.Messages)
    /\ smIndex' = smIndex + 1
    /\ UNCHANGED <<smPc, input, listArg, result, summaries, smResponse, smResult, notSm>>

GetMessageMetadataFail ==
    /\ smPc = "metadata"
    /\ smIndex <= Len(result.Messages)
    /\ smPc' = "done"
    /\ smResult' = "error"
    /\ smResponse' = EmptySearchResponse
    /\ UNCHANGED <<input, listArg, result, smIndex, summaries, notSm>>

ReturnSummaries ==
    /\ smPc = "metadata"
    /\ smIndex > Len(result.Messages)
    /\ smPc' = "done"
    /\ smResult' = "ok"
    /\ smResponse' = SearchMessagesResponse(summaries, result.NextPageToken, Len(summaries))
    /\ UNCHANGED <<input, listArg, result, smIndex, summaries, notSm>>

NextSm ==
    \/ ListMessagesOk \/ ListMessagesFail \/ GetMessageMetadataOk \/ GetMessageMetadataFail
    \/ ReturnSummaries

SpecSm == InitSm /\ [][NextSm]_vars

\* ---------------------------------------------- Converter: temporary files
\* Calls of HTML2MD and PDF2Text run side by side on one file system.  Of the
\* file system only the temporary names matter: owner[n] is 0 when no file
\* or directory of that name exists, Leftover when another program left one
\* behind, and the number of the call that created it otherwise.  For a
\* PDF2Text call written[c] tells whether document.pdf exists inside its
\* directory.
Calls == 1..MaxCalls
TempNames == {"t1", "t2", "t3"}
Leftover == -1
NoReturn == [val |-> "", err |-> ""]

InitCv ==
    /\ UnwrapIdle
    /\ MoreIdle
    /\ B64Idle
    /\ GmIdle
    /\ PaIdle
    /\ PeIdle
    /\ SmIdle
    /\ SuIdle
    /\ UwIdle
    /\ cvPc = [c \in Calls |-> "start"]
    /\ kind \in [Calls -> {"HTML2MD", "PDF2Text"}]
    /\ tmpName = [c \in Calls |-> ""]
    /\ owner \in {[n \in TempNames |-> 0], [n \in TempNames |-> IF n = "t1" THEN Leftover ELSE 0]}
    /\ written = [c \in Calls |-> FALSE]
    /\ ret = [c \in Calls |-> NoReturn]
    /\ returned = [c \in Calls |-> NoReturn]
    /\ cvLog = [c \in Calls |-> {}]
    /\ cleaned = [c \in Calls |-> "no"]

\* os.CreateTemp / os.MkdirTemp pick a name that does not exist
CreateTempOk(c) ==
    /\ cvPc[c] = "start"
    /\ \E n \in TempNames :
          /\ owner[n] = 0
          /\ owner' = [owner EXCEPT ![n] = c]
          /\ tmpName' = [tmpName EXCEPT ![c] = n]
    /\ cvPc' = [cvPc EXCEPT ![c] = "created"]
    /\ UNCHANGED <<kind, written, ret, returned, cvLog, cleaned, notCv>>

\* nothing was created, no deferred cleanup is registered
CreateTempFail(c) ==
    /\ cvPc[c] = "start"
    /\ ret' = [ret EXCEPT ![c] = [val |-> "", err |-> "create temp failed"]]
    /\ returned' = [returned EXCEPT ![c] = [val |-> "", err |-> "create temp failed"]]
    /\ cvPc' = [cvPc EXCEPT ![c] = "done"]
    /\ UNCHANGED <<kind, tmpName, owner, written, cvLog, cleaned, notCv>>

WriteOk(c) ==
    /\ cvPc[c] = "created"
    /\ written' = [written EXCEPT ![c] = TRUE]
    /\ cvPc' = [cvPc EXCEPT ![c] = "tool"]
    /\ UNCHANGED <<kind, tmpName, owner, ret, returned, cvLog, cleaned, notCv>>

\* the write fails and the function returns at once, with no cleanup
WriteFail_NoCleanup(c) ==
    /\ cvPc[c] = "created"
    /\ \E partial \in BOOLEAN : written' = [written EXCEPT ![c] = partial]
    /\ ret' = [ret EXCEPT ![c] = [val |-> "", err |-> "write failed"]]
    /\ returned' = [returned EXCEPT ![c] = [val |-> "", err |-> "write failed"]]
    /\ cvPc' = [cvPc EXCEPT ![c] = "done"]
    /\ UNCHANGED <<kind, tmpName, owner, cvLog, cleaned, notCv>>

\* tmpHTML.Write / os.WriteFile fails, possibly after writing something
WriteFail(c) ==
    /\ cvPc[c] = "created"
    /\ \E partial \in BOOLEAN : written' = [written EXCEPT ![c] = partial]
    /\ ret' = [ret EXCEPT ![c] = [val |-> "", err |-> "write failed"]]
    /\ cvPc' = [cvPc EXCEPT ![c] = "deferred"]
    /\ UNCHANGED <<kind, tmpName, owner, returned, cvLog, cleaned, notCv>>

\* pandoc / pdftotext
ToolOk(c) ==
    /\ cvPc[c] = "tool"
    /\ ret' = [ret EXCEPT ![c] = [val |-> "output", err |-> ""]]
    /\ cvPc' = [cvPc EXCEPT ![c] = "deferred"]
    /\ UNCHANGED <<kind, tmpName, owner, written, returned, cvLog, cleaned, notCv>>

ToolFail(c) ==
    /\ cvPc[c] = "tool"
    /\ ret' = [ret EXCEPT ![c] = [val |-> "", err |-> "conversion failed"]]
    /\ cvPc' = [cvPc EXCEPT ![c] = "deferred"]
    /\ UNCHANGED <<kind, tmpName, owner, written, returned, cvLog, cleaned, notCv>>

\* the deferred function: Close (HTML2MD only) and Remove / RemoveAll, each
\* failure logged; then the caller gets the values of the return statement
Deferred(c) ==
    /\ cvPc[c] = "deferred"
    /\ \E closeOk \in IF kind[c] = "HTML2MD" THEN BOOLEAN ELSE {TRUE}, removeOk \in BOOLEAN :
          /\ cvLog' = [cvLog EXCEPT ![c] =
                (IF closeOk THEN {} ELSE {"Close failed"})
                \cup (IF removeOk THEN {} ELSE {"Remove failed"})]
          /\ owner' = IF removeOk THEN [owner EXCEPT ![tmpName[c]] = 0] ELSE owner
          /\ written' = IF removeOk THEN [written EXCEPT ![c] = FALSE] ELSE written
          /\ cleaned' = [cleaned EXCEPT ![c] = IF removeOk THEN "removed" ELSE "failed"]
    /\ returned' = [returned EXCEPT ![c] = ret[c]]
    /\ cvPc' = [cvPc EXCEPT ![c] = "done"]
    /\ UNCHANGED <<kind, tmpName, ret, notCv>>

NextCv ==
    \E c \in Calls :
        \/ CreateTempOk(c) \/ CreateTempFail(c) \/ WriteOk(c) \/ WriteFail(c)
        \/ ToolOk(c) \/ ToolFail(c) \/ Deferred(c)

SpecCv == InitCv /\ [][NextCv]_vars

\* -------------------------------------------- shouldUnwrapTable on its own
\* inputs: tables with a head or not, every id of OuterAttrs, one row of any
\* kind (or none) followed by 0..MaxFill one-cell content rows, and tables
\* holding such a table in their only cell
FlatTables ==
    {MkTable(a, h, r, k) : a \in OuterAttrs, h \in BOOLEAN,
                           r \in {<<>>} \cup {<<row>> : row \in InnerRows}, k \in 0..MaxFill}
NestingTables ==
    {MkTable(a, FALSE, <<Tr(<<Td(<<t>>)>>)>>, 0) :
        a \in {<<>>, Id(<<"main">>)},
        t \in {MkTable(<<>>, FALSE, <<r>>, k) : r \in {HeaderRow, TwoColRow, FillRow},
                                               k \in {0, contentRowThreshold}}}
ClassifiedTables == FlatTables \cup NestingTables

InitSu ==
    /\ UnwrapIdle
    /\ MoreIdle
    /\ B64Idle
    /\ GmIdle
    /\ PaIdle
    /\ PeIdle
    /\ SmIdle
    /\ CvIdle
    /\ UwIdle
    /\ candidate \in ClassifiedTables
    /\ decision = [decided |-> FALSE, unwrap |-> FALSE]

Classify ==
    /\ ~decision.decided
    /\ decision' = [decided |-> TRUE, unwrap |-> shouldUnwrapTable(candidate)]
    /\ UNCHANGED <<candidate, notSu>>

NextSu == Classify

SpecSu == InitSu /\ [][NextSu]_vars

\* ------------------------------------------------- unwrapTable on its own
\* The child list of table.Parent, each child with the address of its node:
\* [ptr, node].  Nodes made by extractTableContent are new, their addresses
\* are the ones after the highest address in use.
Child(ptr, node) == [ptr |-> ptr, node |-> node]

\* parent.InsertBefore(newChild, oldChild), oldChild being kids[i]
InsertBefore(kids, newChild, i) ==
    SubSeq(kids, 1, i - 1) \o <<newChild>> \o SubSeq(kids, i, Len(kids))

\* parent.RemoveChild(kids[i])
RemoveChild(kids, i) == SubSeq(kids, 1, i - 1) \o SubSeq(kids, i + 1, Len(kids))

NewNodes(kids, nodes) ==
    [k \in DOMAIN nodes |-> Child(MaxOf({kids[j].ptr : j \in DOMAIN kids}) + k, nodes[k])]

\* the content is appended to the parent instead of put before the table
RECURSIVE InsertContent_Append(_, _, _)
InsertContent_Append(kids, nodes, i) ==
    IF nodes = <<>> THEN kids
    ELSE InsertContent_Append(Append(kids, Head(nodes)), Tail(nodes), i)

\* the loop of unwrapTable: the table is at kids[i] and moves one place to
\* the right with every node put before it
RECURSIVE InsertContent(_, _, _)
InsertContent(kids, nodes, i) ==
    IF nodes = <<>> THEN kids
    ELSE InsertContent(InsertBefore(kids, Head(nodes), i), Tail(nodes), i + 1)

\* unwrapTable(table) for the table at kids[i] of its parent
unwrapTableIn(kids, i) ==
    LET inserted == NewNodes(kids, extractTableContent(kids[i].node))
        withContent == InsertContent(kids, inserted, i)
        tableAt == CHOOSE j \in DOMAIN withContent : withContent[j].ptr = kids[i].ptr
    IN  RemoveChild(withContent, tableAt)

\* inputs: a parent element with up to MaxSiblings children besides the
\* table; a sibling may be a table equal to the one unwrapped
RowOf(c) == Tr(<<Td(c)>>)
UnwrappedTables ==
    { Elem("table", <<>>, <<>>),
      MkTable(<<>>, FALSE, <<RowOf(<<Text(<<"a">>)>>)>>, 0),
      MkTable(<<>>, FALSE, <<RowOf(<<Text(<<"a">>)>>), RowOf(<<Text(<<"s">>)>>),
                            RowOf(<<Div(<<Text(<<"a">>)>>), Text(<<"a">>)>>)>>, 0),
      MkTable(Id(<<"main">>), FALSE, <<RowOf(<<MkTable(<<>>, FALSE, <<HeaderRow>>, 0)>>)>>, 0) }
SiblingNodes ==
    { Text(<<"a">>), Div(<<Text(<<"a">>)>>), Comment,
      MkTable(<<>>, FALSE, <<RowOf(<<Text(<<"a">>)>>)>>, 0) }
ChildLists ==
    {b \o <<t>> \o a : t \in UnwrappedTables,
                       b \in SeqsUpTo(SiblingNodes, MaxSiblings),
                       a \in SeqsUpTo(SiblingNodes, MaxSiblings)}
ParentKids == {[k \in DOMAIN l |-> Child(k, l[k])] : l \in {c \in ChildLists : Len(c) <= MaxSiblings + 1}}

InitUw ==
    /\ UnwrapIdle
    /\ MoreIdle
    /\ B64Idle
    /\ GmIdle
    /\ PaIdle
    /\ PeIdle
    /\ SmIdle
    /\ CvIdle
    /\ SuIdle
    /\ uwOrig \in ParentKids
    /\ uwParent = uwOrig
    /\ uwPos \in {i \in DOMAIN uwOrig : uwOrig[i].node \in UnwrappedTables}
    /\ uwDone = FALSE

UnwrapInParent ==
    /\ ~uwDone
    /\ uwParent' = unwrapTableIn(uwParent, uwPos)
    /\ uwDone' = TRUE
    /\ UNCHANGED <<uwOrig, uwPos, notUw>>

NextUw == UnwrapInParent

SpecUw == InitUw /\ [][NextUw]_vars

\* ----------------------------------------- simplifyNode on linked nodes
\* The tree as html.Node keeps it: heap[id] is a node, Parent the id of its
\* parent (Nil for none), kids the ids of its children from FirstChild along
\* NextSibling.  A node taken out of the tree stays in the heap, unreachable.
Nil == 0

NodeAt(n, parent) ==
    [Type |-> n.Type, Data |-> n.Data, Chars |-> n.Chars, Attr |-> n.Attr,
     Parent |-> parent, kids |-> <<>>]

IndexOf(s, x) == CHOOSE i \in DOMAIN s : s[i] = x

FirstChild(h, n) == IF h[n].kids = <<>> THEN Nil ELSE h[n].kids[1]

NextSibling(h, c) ==
    IF h[c].Parent = Nil THEN Nil
    ELSE LET ks == h[h[c].Parent].kids
             i == IndexOf(ks, c)
         IN  IF i < Len(ks) THEN ks[i + 1] ELSE Nil

\* p.AppendChild(c), p.InsertBefore(c, old), p.RemoveChild(c)
AppendChildAt(h, p, c) == [h EXCEPT ![p].kids = Append(@, c), ![c].Parent = p]

InsertBeforeAt(h, p, c, old) ==
    [h EXCEPT ![p].kids = InsertBefore(@, c, IndexOf(@, old)), ![c].Parent = p]

RemoveChildAt(h, p, c) ==
    [h EXCEPT ![p].kids = RemoveChild(@, IndexOf(@, c)), ![c].Parent = Nil]

\* the subtree of node n as a value
RECURSIVE TreeOf(_, _)
TreeOf(h, n) ==
    [Type |-> h[n].Type, Data |-> h[n].Data, Chars |-> h[n].Chars, Attr |-> h[n].Attr,
     kids |-> [i \in DOMAIN h[n].kids |-> TreeOf(h, h[n].kids[i])]]

\* the linked tree html.Parse hands over for a document
RECURSIVE Linked(_, _, _), LinkedChildren(_, _, _)
Linked(h, n, parent) ==
    LET h1 == Append(h, NodeAt(n, Nil))
    IN  LinkedChildren(IF parent = Nil THEN h1 ELSE AppendChildAt(h1, parent, Len(h1)),
                       Len(h) + 1, n.kids)

LinkedChildren(h, p, ks) ==
    IF ks = <<>> THEN h ELSE LinkedChildren(Linked(h, Head(ks), p), p, Tail(ks))

\* a copy of the node that keeps the children of the original
cloneNodeAt_Shallow(h, n) ==
    [h |-> Append(h, [NodeAt(h[n], Nil) EXCEPT !.kids = h[n].kids]), id |-> Len(h) + 1]

RECURSIVE cloneNodeAt(_, _), CloneChildren(_, _, _)
cloneNodeAt(h, n) ==
    CloneChildren(Append(h, NodeAt(h[n], Nil)), Len(h) + 1, h[n].kids)

CloneChildren(h, clone, cs) ==
    IF cs = <<>> THEN [h |-> h, id |-> clone]
    ELSE LET c == cloneNodeAt(h, Head(cs))
         IN  CloneChildren(AppendChildAt(c.h, clone, c.id), clone, Tail(cs))

\* extractTableContent(n, &content) during the unwrap of table t; got is
\* the content slice, clones records every cloneNode call
RECURSIVE extractTableContentAt(_, _, _), ExtractChildren(_, _, _)
extractTableContentAt(s, n, t) ==
    LET x == s.h[n]
    IN  IF x.Type = "elem" /\ isTableElement(x.Data)
        THEN LET s1 == ExtractChildren(s, x.kids, t)
             IN  IF x.Data = "tr" /\ Len(s1.got) > Len(s.got)
                 THEN [s1 EXCEPT !.h = Append(@, NodeAt(lineBreak, Nil)),
                                 !.got = Append(@, Len(s1.h) + 1)]
                 ELSE s1
        ELSE IF x.Type = "elem"
        THEN LET c == cloneNodeAt(s.h, n)
             IN  [h |-> c.h, got |-> Append(s.got, c.id),
                  clones |-> Append(s.clones, [src |-> n, clone |-> c.id, table |-> t])]
        ELSE IF x.Type = "text" /\ TrimSpace(x.Chars) # <<>>
        THEN [s EXCEPT !.h = Append(@, NodeAt(Text(x.Chars), Nil)),
                       !.got = Append(@, Len(s.h) + 1)]
        ELSE s

ExtractChildren(s, cs, t) ==
    IF cs = <<>> THEN s
    ELSE ExtractChildren(extractTableContentAt(s, Head(cs), t), Tail(cs), t)

RECURSIVE InsertAll(_, _, _, _)
InsertAll(h, p, cs, t) ==
    IF cs = <<>> THEN h ELSE InsertAll(InsertBeforeAt(h, p, Head(cs), t), p, Tail(cs), t)

unwrapTableAt(h, t) ==
    LET e == extractTableContentAt([h |-> h, got |-> <<>>, clones |-> <<>>], t, t)
        parent == h[t].Parent
    IN  [h |-> IF parent # Nil
               THEN RemoveChildAt(InsertAll(e.h, parent, e.got, t), parent, t)
               ELSE e.h,
         clones |-> e.clones]

\* simplifyNode(n); the next sibling is read before the child is simplified
RECURSIVE simplifyNodeAt(_, _), SimplifyFrom(_, _)
simplifyNodeAt(s, n) ==
    LET s1 == SimplifyFrom(s, FirstChild(s.h, n))
    IN  IF s1.h[n].Type = "elem" /\ s1.h[n].Data = "table" /\ shouldUnwrapTable(TreeOf(s1.h, n))
        THEN LET u == unwrapTableAt(s1.h, n)
             IN  [h |-> u.h, chg |-> TRUE, clones |-> s1.clones \o u.clones,
                  dead |-> Append(s1.dead, n)]
        ELSE s1

SimplifyFrom(s, child) ==
    IF child = Nil THEN s
    ELSE LET next == NextSibling(s.h, child)
         IN  SimplifyFrom(simplifyNodeAt(s, child), next)

\* inputs: a table with one cell that holds text, an element with
\* white space inside, a nested table, or an element around a nested table
LinkedInner == {MkTable(a, FALSE, <<r>>, 0) : a \in InnerAttrs, r \in InnerRows}
LinkedCells ==
    LeafCells \cup {<<Div(<<Ws, Text(<<"a">>), Elem("b", Id(<<"x">>), <<Ws>>)>>)>>}
    \cup {<<t>> : t \in LinkedInner}
    \cup {<<Div(<<Ws, t>>)>> : t \in LinkedInner}
LinkedTables ==
    {MkTable(a, FALSE, <<Tr(<<Td(c)>>)>>, 0) : a \in {<<>>, Id(<<"main">>)}, c \in LinkedCells}
    \cup {ComplexNesting, DeeplyNested}
LinkedDocs ==
    {Linked(<<>>, Document(<<Elem("html", <<>>, <<Elem("head", <<>>, <<>>),
                                                  Elem("body", <<>>, <<Ws, t, Ws>>)>>)>>), Nil) :
        t \in LinkedTables}

Root == 1

InitHp ==
    /\ UnwrapIdle
    /\ B64Idle
    /\ GmIdle
    /\ PaIdle
    /\ PeIdle
    /\ SmIdle
    /\ CvIdle
    /\ SuIdle
    /\ UwIdle
    /\ AuIdle
    /\ MnIdle
    /\ heap \in LinkedDocs
    /\ hpPc = "loop"
    /\ hpIter = 0
    /\ hpChanged = FALSE
    /\ cloneLog = <<>>
    /\ removed = <<>>

\* one turn of the loop of UnwrapTableLayout
PassAt ==
    /\ hpPc = "loop"
    /\ hpIter < maxIterations
    /\ \E r \in {simplifyNodeAt([h |-> heap, chg |-> FALSE, clones |-> <<>>, dead |-> <<>>], Root)} :
           /\ heap' = r.h
           /\ hpChanged' = r.chg
           /\ cloneLog' = cloneLog \o r.clones
           /\ removed' = removed \o r.dead
           /\ hpPc' = IF r.chg /\ hpIter + 1 < maxIterations THEN "loop" ELSE "done"
    /\ hpIter' = hpIter + 1
    /\ UNCHANGED <<unwrapVars, b64Vars, gm, paVars, peVars, smVars, cvVars, suVars, uwVars,
                   auVars, mnVars>>

NextHp == PassAt

SpecHp == InitHp /\ [][NextHp]_vars

\* ------------------------------------------------------------ auth.Token
\* Handlers are the goroutines of the HTTP server that call into the Token.
\* The clock counts minutes.  A state value is what rand.Read and the
\* encoding give: a value that was never given before.  validated counts
\* the ValidateState calls that returned true for a state, exchanges the
\* calls of cfg.Exchange.
Handlers == {1, 2}
States == {"s1", "s2"}
stateTTL == 5

NoToken == [isNil |-> TRUE, AccessToken |-> ""]
Token(a) == [isNil |-> FALSE, AccessToken |-> a]
NoRequest == [n |-> 0, op |-> "", state |-> "", code |-> ""]
\* what call number n returned
Return(n, op, s, err, tok) == [n |-> n, op |-> op, state |-> s, err |-> err, tok |-> tok]
NoReturnYet == Return(0, "", "", "", NoToken)
RequestStates == States \cup {"", "forged"}
CodeOf(p) == IF p = 1 THEN "c1" ELSE "c2"

\* the map stateStore: delete(m, s), m[s] = e
Delete(m, s) == [x \in DOMAIN m \ {s} |-> m[x]]
Put(m, s, e) == [x \in DOMAIN m \cup {s} |-> IF x = s THEN e ELSE m[x]]
NoStates == [x \in {} |-> 0]

\* the value rand.Read gives next
FreshState == IF "s1" \notin issued THEN "s1" ELSE "s2"

notAu == <<unwrapVars, b64Vars, gm, paVars, peVars, smVars, cvVars, suVars, uwVars, hpVars,
           mnVars>>

InitAu ==
    /\ UnwrapIdle
    /\ B64Idle
    /\ GmIdle
    /\ PaIdle
    /\ PeIdle
    /\ SmIdle
    /\ CvIdle
    /\ SuIdle
    /\ UwIdle
    /\ HpIdle
    /\ MnIdle
    /\ auPc = [p \in Handlers |-> "idle"]
    /\ auReq = [p \in Handlers |-> NoRequest]
    /\ auValid = [p \in Handlers |-> FALSE]
    /\ auRet = NoReturnYet
    /\ auCalls = 0
    /\ mu = 0
    /\ stateStore = NoStates
    /\ oauthTok \in {NoToken, Token("t0")}
    /\ persistPath \in {"", "token.json"}
    /\ onDisk = oauthTok
    /\ now = 0
    /\ issued = {}
    /\ validated = [s \in RequestStates |-> 0]
    /\ exchanges = 0

CanCall(p) == auPc[p] = "idle" /\ auCalls < MaxRequests

\* generateState: rand.Read fails, "" is returned and nothing is stored
RandFail(p) ==
    /\ CanCall(p)
    /\ auCalls' = auCalls + 1
    /\ auRet' = Return(auCalls + 1, "RedirectURL", "", "", NoToken)
    /\ UNCHANGED <<auPc, auReq, auValid, mu, stateStore, oauthTok, persistPath, onDisk, now,
                   issued, validated, exchanges, notAu>>

\* generateState: the state is made, then t.mu.Lock()
GenLock(p) ==
    /\ CanCall(p)
    /\ mu = 0
    /\ issued # States
    /\ \E s \in {FreshState} :
          /\ auReq' = [auReq EXCEPT ![p] = [n |-> auCalls + 1, op |-> "RedirectURL",
                                             state |-> s, code |-> ""]]
          /\ issued' = issued \cup {s}
    /\ mu' = p
    /\ auPc' = [auPc EXCEPT ![p] = "gStore"]
    /\ auCalls' = auCalls + 1
    /\ UNCHANGED <<auValid, auRet, stateStore, oauthTok, persistPath, onDisk, now, validated,
                   exchanges, notAu>>

GenStore(p) ==
    /\ auPc[p] = "gStore"
    /\ stateStore' = Put(stateStore, auReq[p].state, now + stateTTL)
    /\ auPc' = [auPc EXCEPT ![p] = "gClean"]
    /\ UNCHANGED <<auReq, auValid, auRet, auCalls, mu, oauthTok, persistPath, onDisk, now, issued,
                   validated, exchanges, notAu>>

\* the expired states are deleted, the lock is released, state is returned
GenClean(p) ==
    /\ auPc[p] = "gClean"
    /\ stateStore' = [x \in {y \in DOMAIN stateStore : ~(stateStore[y] < now)} |-> stateStore[x]]
    /\ mu' = 0
    /\ auRet' = Return(auReq[p].n, "RedirectURL", auReq[p].state, "", NoToken)
    /\ auPc' = [auPc EXCEPT ![p] = "idle"]
    /\ UNCHANGED <<auReq, auValid, auCalls, oauthTok, persistPath, onDisk, now, issued,
                   validated, exchanges, notAu>>

\* a callback arrives: AuthorizeCode(ctx, code, state) calls ValidateState,
\* which refuses the empty state without looking at the store
AuthorizeCode(p) ==
    /\ CanCall(p)
    /\ auCalls' = auCalls + 1
    /\ \E s \in RequestStates :
          /\ auReq' = [auReq EXCEPT ![p] = [n |-> auCalls + 1, op |-> "AuthorizeCode",
                                             state |-> s, code |-> CodeOf(p)]]
          /\ auValid' = [auValid EXCEPT ![p] = FALSE]
          /\ auPc' = [auPc EXCEPT ![p] = IF s = "" THEN "authorize" ELSE "vLock"]
    /\ UNCHANGED <<auRet, mu, stateStore, oauthTok, persistPath, onDisk, now, issued, validated,
                   exchanges, notAu>>

ValLock(p) ==
    /\ auPc[p] = "vLock"
    /\ mu = 0
    /\ mu' = p
    /\ auPc' = [auPc EXCEPT ![p] = "vBody"]
    /\ UNCHANGED <<auReq, auValid, auRet, auCalls, stateStore, oauthTok, persistPath, onDisk, now,
                   issued, validated, exchanges, notAu>>

\* a valid state stays in the store
ValidateState_Keep(p) ==
    /\ auPc[p] = "vBody"
    /\ \E s \in {auReq[p].state} :
          LET exists == s \in DOMAIN stateStore
              expired == exists /\ now > stateStore[s]
          IN  /\ stateStore' = IF expired THEN Delete(stateStore, s) ELSE stateStore
              /\ auValid' = [auValid EXCEPT ![p] = exists /\ ~expired]
              /\ validated' = IF exists /\ ~expired
                               THEN [validated EXCEPT ![s] = @ + 1] ELSE validated
    /\ mu' = 0
    /\ auPc' = [auPc EXCEPT ![p] = "authorize"]
    /\ UNCHANGED <<auReq, auRet, auCalls, oauthTok, persistPath, onDisk, now, issued, exchanges,
                   notAu>>

\* ValidateState under the lock: look up, compare with the clock, delete
ValidateState(p) ==
    /\ auPc[p] = "vBody"
    /\ \E s \in {auReq[p].state} :
          LET exists == s \in DOMAIN stateStore
              expired == exists /\ now > stateStore[s]
          IN  /\ stateStore' = Delete(stateStore, s)
              /\ auValid' = [auValid EXCEPT ![p] = exists /\ ~expired]
              /\ validated' = IF exists /\ ~expired
                               THEN [validated EXCEPT ![s] = @ + 1] ELSE validated
    /\ mu' = 0
    /\ auPc' = [auPc EXCEPT ![p] = "authorize"]
    /\ UNCHANGED <<auReq, auRet, auCalls, oauthTok, persistPath, onDisk, now, issued, exchanges,
                   notAu>>

AuthReject(p) ==
    /\ auPc[p] = "authorize"
    /\ ~auValid[p]
    /\ auRet' = Return(auReq[p].n, "AuthorizeCode", auReq[p].state,
                                     "invalid or expired state parameter", NoToken)
    /\ auPc' = [auPc EXCEPT ![p] = "idle"]
    /\ UNCHANGED <<auReq, auValid, auCalls, mu, stateStore, oauthTok, persistPath, onDisk, now,
                   issued, validated, exchanges, notAu>>

AuthLock(p) ==
    /\ auPc[p] = "authorize"
    /\ auValid[p]
    /\ mu = 0
    /\ mu' = p
    /\ auPc' = [auPc EXCEPT ![p] = "exchange"]
    /\ UNCHANGED <<auReq, auValid, auRet, auCalls, stateStore, oauthTok, persistPath, onDisk, now,
                   issued, validated, exchanges, notAu>>

ExchangeOk(p) ==
    /\ auPc[p] = "exchange"
    /\ exchanges' = exchanges + 1
    /\ oauthTok' = Token(auReq[p].code)
    /\ mu' = 0
    /\ auRet' = Return(auReq[p].n, "AuthorizeCode", auReq[p].state, "", NoToken)
    /\ auPc' = [auPc EXCEPT ![p] = "idle"]
    /\ UNCHANGED <<auReq, auValid, auCalls, stateStore, persistPath, onDisk, now, issued,
                   validated, notAu>>

\* a failed exchange that drops the token held so far
ExchangeFail_Drop(p) ==
    /\ auPc[p] = "exchange"
    /\ exchanges' = exchanges + 1
    /\ oauthTok' = NoToken
    /\ mu' = 0
    /\ auRet' = Return(auReq[p].n, "AuthorizeCode", auReq[p].state, "cfg.Exchange failed",
                                     NoToken)
    /\ auPc' = [auPc EXCEPT ![p] = "idle"]
    /\ UNCHANGED <<auReq, auValid, auCalls, stateStore, persistPath, onDisk, now, issued,
                   validated, notAu>>

ExchangeFail(p) ==
    /\ auPc[p] = "exchange"
    /\ exchanges' = exchanges + 1
    /\ mu' = 0
    /\ auRet' = Return(auReq[p].n, "AuthorizeCode", auReq[p].state, "cfg.Exchange failed",
                                     NoToken)
    /\ auPc' = [auPc EXCEPT ![p] = "idle"]
    /\ UNCHANGED <<auReq, auValid, auCalls, stateStore, oauthTok, persistPath, onDisk, now,
                   issued, validated, notAu>>

\* OAuthToken under the read lock
OAuthToken(p) ==
    /\ CanCall(p)
    /\ mu = 0
    /\ auCalls' = auCalls + 1
    /\ auRet' = Return(auCalls + 1, "OAuthToken", "",
                                     IF oauthTok.isNil THEN "ErrTokenNotSet" ELSE "", oauthTok)
    /\ UNCHANGED <<auPc, auReq, auValid, mu, stateStore, oauthTok, persistPath, onDisk, now,
                   issued, validated, exchanges, notAu>>

\* Persist under the read lock; the file is written when there is a path
\* and a token, and a failed write leaves the old file or a truncated one
Persist(p) ==
    /\ CanCall(p)
    /\ mu = 0
    /\ auCalls' = auCalls + 1
    /\ IF persistPath = "" \/ oauthTok.isNil
       THEN /\ onDisk' = onDisk
            /\ auRet' = Return(auCalls + 1, "Persist", "", "", NoToken)
       ELSE \/ /\ onDisk' = oauthTok
               /\ auRet' = Return(auCalls + 1, "Persist", "", "", NoToken)
            \/ /\ onDisk' \in {onDisk, NoToken}
               /\ auRet' = Return(auCalls + 1, "Persist", "", "write failed", NoToken)
    /\ UNCHANGED <<auPc, auReq, auValid, mu, stateStore, oauthTok, persistPath, now, issued,
                   validated, exchanges, notAu>>

\* time passes: the lifetime of a state, then minute by minute
Tick ==
    /\ \E d \in {IF now < stateTTL THEN stateTTL - now ELSE 1} :
          now + d <= MaxTime /\ now' = now + d
    /\ UNCHANGED <<auPc, auReq, auValid, auRet, auCalls, mu, stateStore, oauthTok, persistPath,
                   onDisk, issued, validated, exchanges, notAu>>

NextAu ==
    \/ \E p \in Handlers :
          \/ RandFail(p) \/ GenLock(p) \/ GenStore(p) \/ GenClean(p)
          \/ AuthorizeCode(p) \/ ValLock(p) \/ ValidateState(p) \/ AuthReject(p) \/ AuthLock(p)
          \/ ExchangeOk(p) \/ ExchangeFail(p) \/ OAuthToken(p) \/ Persist(p)
    \/ Tick

SpecAu == InitAu /\ [][NextAu]_vars

\* ------------------------------------------------------------------- main
\* main after signal.Notify (part_010:80), the goroutine of serveHTTP and
\* the goroutine of serveStdio.  A channel is [isNil, buf, closed]; the
\* error channels have room for one value.  defers is the stack of main's
\* deferred calls, the last deferred first; persistLogs and tok.Persist
\* were deferred before the machine starts.  shutdown counts the signals
\* waiting in the channel given to signal.Notify, which drops a signal
\* when the channel is full.
errChCap == 1
NilChan == [isNil |-> TRUE, buf |-> <<>>, closed |-> FALSE]
MakeChan == [isNil |-> FALSE, buf |-> <<>>, closed |-> FALSE]
CanRecv(ch) == ~ch.isNil /\ (ch.buf # <<>> \/ ch.closed)
Recv(ch) == [ch EXCEPT !.buf = IF @ # <<>> THEN Tail(@) ELSE @]
CanSend(ch) == ~ch.isNil /\ ~ch.closed /\ Len(ch.buf) < errChCap
Send(ch, v) == [ch EXCEPT !.buf = Append(@, v)]
Close(ch) == [ch EXCEPT !.closed = TRUE]

notMn == <<unwrapVars, b64Vars, gm, paVars, peVars, smVars, cvVars, suVars, uwVars, hpVars,
           auVars>>

InitMn ==
    /\ UnwrapIdle
    /\ B64Idle
    /\ GmIdle
    /\ PaIdle
    /\ PeIdle
    /\ SmIdle
    /\ CvIdle
    /\ SuIdle
    /\ UwIdle
    /\ HpIdle
    /\ AuIdle
    /\ enableStdio \in BOOLEAN
    /\ mainPc = "serveHTTP"
    /\ defers = <<"Persist", "persistLogs">>
    /\ selected = ""
    /\ httpPc = "none"
    /\ httpErr = ""
    /\ stdioPc = "none"
    /\ stdioErr = ""
    /\ errHTTPCh = NilChan
    /\ errStdioCh = NilChan
    /\ shutdown = 0
    /\ signals = 0
    /\ inShutdown = FALSE
    /\ ctxDone = FALSE
    /\ mainLog = <<>>

\* stopHTTP, errHTTPCh := serveHTTP(srv, ln); defer stopHTTP()
ServeHTTPCall ==
    /\ mainPc = "serveHTTP"
    /\ errHTTPCh' = MakeChan
    /\ httpPc' = "go"
    /\ defers' = <<"stopHTTP">> \o defers
    /\ mainPc' = "stdio"
    /\ UNCHANGED <<enableStdio, selected, httpErr, stdioPc, stdioErr, errStdioCh, shutdown,
                   signals, inShutdown, ctxDone, mainLog, notMn>>

\* if *enableStdio { stopStdio, errStdioCh = serveStdio(gmailT); defer stopStdio() }
ServeStdioCall ==
    /\ mainPc = "stdio"
    /\ IF enableStdio
       THEN /\ errStdioCh' = MakeChan
            /\ stdioPc' = "go"
            /\ defers' = <<"stopStdio">> \o defers
       ELSE UNCHANGED <<errStdioCh, stdioPc, defers>>
    /\ mainPc' = "select"
    /\ UNCHANGED <<enableStdio, selected, httpPc, httpErr, stdioErr, errHTTPCh, shutdown,
                   signals, inShutdown, ctxDone, mainLog, notMn>>

\* the three cases of the select
SelectHTTP ==
    /\ mainPc = "select"
    /\ CanRecv(errHTTPCh)
    /\ errHTTPCh' = Recv(errHTTPCh)
    /\ selected' = "http"
    /\ mainLog' = Append(mainLog, "Error http server")
    /\ mainPc' = "defer"
    /\ UNCHANGED <<enableStdio, defers, httpPc, httpErr, stdioPc, stdioErr, errStdioCh,
                   shutdown, signals, inShutdown, ctxDone, notMn>>

SelectStdio ==
    /\ mainPc = "select"
    /\ CanRecv(errStdioCh)
    /\ errStdioCh' = Recv(errStdioCh)
    /\ selected' = "stdio"
    /\ mainLog' = Append(mainLog, "Error stdio")
    /\ mainPc' = "defer"
    /\ UNCHANGED <<enableStdio, defers, httpPc, httpErr, stdioPc, stdioErr, errHTTPCh,
                   shutdown, signals, inShutdown, ctxDone, notMn>>

SelectShutdown ==
    /\ mainPc = "select"
    /\ shutdown > 0
    /\ shutdown' = shutdown - 1
    /\ selected' = "signal"
    /\ mainLog' = Append(mainLog, "Shutdown signal received")
    /\ mainPc' = "defer"
    /\ UNCHANGED <<enableStdio, defers, httpPc, httpErr, stdioPc, stdioErr, errHTTPCh,
                   errStdioCh, signals, inShutdown, ctxDone, notMn>>

\* main returns: the deferred calls run, the last deferred first
RunsDeferred(f) == mainPc = "defer" /\ defers # <<>> /\ Head(defers) = f

\* stopStdio: cancel()
StopStdioCancel ==
    /\ RunsDeferred("stopStdio")
    /\ ctxDone' = TRUE
    /\ mainPc' = "stopStdio"
    /\ UNCHANGED <<enableStdio, defers, selected, httpPc, httpErr, stdioPc, stdioErr,
                   errHTTPCh, errStdioCh, shutdown, signals, inShutdown, mainLog, notMn>>

\* stopStdio: <-errStdioCh
StopStdioRecv ==
    /\ mainPc = "stopStdio"
    /\ CanRecv(errStdioCh)
    /\ errStdioCh' = Recv(errStdioCh)
    /\ mainLog' = Append(mainLog, "Stdio transport stopped")
    /\ defers' = Tail(defers)
    /\ mainPc' = "defer"
    /\ UNCHANGED <<enableStdio, selected, httpPc, httpErr, stdioPc, stdioErr, errHTTPCh,
                   shutdown, signals, inShutdown, ctxDone, notMn>>

\* stopHTTP: srv.Shutdown(ctx) is called with three seconds to finish
StopHTTPShutdown ==
    /\ RunsDeferred("stopHTTP")
    /\ inShutdown' = TRUE
    /\ mainPc' = "shutdown"
    /\ UNCHANGED <<enableStdio, defers, selected, httpPc, httpErr, stdioPc, stdioErr,
                   errHTTPCh, errStdioCh, shutdown, signals, ctxDone, mainLog, notMn>>

\* srv.Shutdown returns, with nil or with the error of the timeout
ShutdownReturn ==
    /\ mainPc = "shutdown"
    /\ \/ mainLog' = mainLog
       \/ mainLog' = Append(mainLog, "srv.Shutdown failed")
    /\ mainPc' = "stopHTTP"
    /\ UNCHANGED <<enableStdio, defers, selected, httpPc, httpErr, stdioPc, stdioErr,
                   errHTTPCh, errStdioCh, shutdown, signals, inShutdown, ctxDone, notMn>>

\* stopHTTP: <-errHTTPCh
StopHTTPRecv ==
    /\ mainPc = "stopHTTP"
    /\ CanRecv(errHTTPCh)
    /\ errHTTPCh' = Recv(errHTTPCh)
    /\ mainLog' = Append(mainLog, "HTTP server stopped")
    /\ defers' = Tail(defers)
    /\ mainPc' = "defer"
    /\ UNCHANGED <<enableStdio, selected, httpPc, httpErr, stdioPc, stdioErr, errStdioCh,
                   shutdown, signals, inShutdown, ctxDone, notMn>>

\* the deferred tok.Persist(), which returns nil or an error
DeferredPersist ==
    /\ RunsDeferred("Persist")
    /\ \/ mainLog' = Append(mainLog, "Persisting token if exists")
       \/ mainLog' = mainLog \o <<"Persisting token if exists", "tok.Persist failed">>
    /\ defers' = Tail(defers)
    /\ UNCHANGED <<enableStdio, mainPc, selected, httpPc, httpErr, stdioPc, stdioErr,
                   errHTTPCh, errStdioCh, shutdown, signals, inShutdown, ctxDone, notMn>>

DeferredPersistLogs ==
    /\ RunsDeferred("persistLogs")
    /\ defers' = Tail(defers)
    /\ UNCHANGED <<enableStdio, mainPc, selected, httpPc, httpErr, stdioPc, stdioErr,
                   errHTTPCh, errStdioCh, shutdown, signals, inShutdown, ctxDone, mainLog,
                   notMn>>

Exit ==
    /\ mainPc = "defer"
    /\ defers = <<>>
    /\ mainPc' = "exited"
    /\ UNCHANGED <<enableStdio, defers, selected, httpPc, httpErr, stdioPc, stdioErr,
                   errHTTPCh, errStdioCh, shutdown, signals, inShutdown, ctxDone, mainLog,
                   notMn>>

\* the goroutine of serveHTTP calls srv.Serve(ln)
HttpServe ==
    /\ httpPc = "go"
    /\ httpPc' = "serve"
    /\ UNCHANGED <<enableStdio, mainPc, defers, selected, httpErr, stdioPc, stdioErr,
                   errHTTPCh, errStdioCh, shutdown, signals, inShutdown, ctxDone, mainLog,
                   notMn>>

\* srv.Serve returns an error of the listener
ServeFail ==
    /\ httpPc = "serve"
    /\ httpErr' = "srv.ListenAndServe failed"
    /\ httpPc' = "send"
    /\ UNCHANGED <<enableStdio, mainPc, defers, selected, stdioPc, stdioErr, errHTTPCh,
                   errStdioCh, shutdown, signals, inShutdown, ctxDone, mainLog, notMn>>

\* srv.Serve returns http.ErrServerClosed once Shutdown was called; the
\* error is not sent
ServeClosed ==
    /\ httpPc = "serve"
    /\ inShutdown
    /\ httpErr' = "ErrServerClosed"
    /\ httpPc' = "close"
    /\ UNCHANGED <<enableStdio, mainPc, defers, selected, stdioPc, stdioErr, errHTTPCh,
                   errStdioCh, shutdown, signals, inShutdown, ctxDone, mainLog, notMn>>

\* errHTTPCh <- err
HttpSend ==
    /\ httpPc = "send"
    /\ CanSend(errHTTPCh)
    /\ errHTTPCh' = Send(errHTTPCh, httpErr)
    /\ httpPc' = "close"
    /\ UNCHANGED <<enableStdio, mainPc, defers, selected, httpErr, stdioPc, stdioErr,
                   errStdioCh, shutdown, signals, inShutdown, ctxDone, mainLog, notMn>>

\* the goroutine has no defer close(errHTTPCh)
HttpClose_NoClose ==
    /\ httpPc = "close"
    /\ httpPc' = "exited"
    /\ UNCHANGED <<enableStdio, mainPc, defers, selected, httpErr, stdioPc, stdioErr,
                   errHTTPCh, errStdioCh, shutdown, signals, inShutdown, ctxDone, mainLog,
                   notMn>>

\* defer close(errHTTPCh)
HttpClose ==
    /\ httpPc = "close"
    /\ errHTTPCh' = Close(errHTTPCh)
    /\ httpPc' = "exited"
    /\ UNCHANGED <<enableStdio, mainPc, defers, selected, httpErr, stdioPc, stdioErr,
                   errStdioCh, shutdown, signals, inShutdown, ctxDone, mainLog, notMn>>

\* the goroutine of serveStdio calls srv.Run(ctx, &mcp.StdioTransport{})
StdioRun ==
    /\ stdioPc = "go"
    /\ stdioPc' = "run"
    /\ UNCHANGED <<enableStdio, mainPc, defers, selected, httpPc, httpErr, stdioErr,
                   errHTTPCh, errStdioCh, shutdown, signals, inShutdown, ctxDone, mainLog,
                   notMn>>

\* srv.Run returns an error of the transport
RunFail ==
    /\ stdioPc = "run"
    /\ stdioErr' = "srv.Run failed"
    /\ stdioPc' = "send"
    /\ UNCHANGED <<enableStdio, mainPc, defers, selected, httpPc, httpErr, errHTTPCh,
                   errStdioCh, shutdown, signals, inShutdown, ctxDone, mainLog, notMn>>

\* srv.Run returns nil: the client ended the session
RunEnd ==
    /\ stdioPc = "run"
    /\ stdioPc' = "close"
    /\ UNCHANGED <<enableStdio, mainPc, defers, selected, httpPc, httpErr, stdioErr,
                   errHTTPCh, errStdioCh, shutdown, signals, inShutdown, ctxDone, mainLog,
                   notMn>>

\* srv.Run returns ctx.Err() once the context is cancelled
RunCancelled ==
    /\ stdioPc = "run"
    /\ ctxDone
    /\ stdioErr' = "srv.Run failed: context canceled"
    /\ stdioPc' = "send"
    /\ UNCHANGED <<enableStdio, mainPc, defers, selected, httpPc, httpErr, errHTTPCh,
                   errStdioCh, shutdown, signals, inShutdown, ctxDone, mainLog, notMn>>

\* errStdioCh <- err
StdioSend ==
    /\ stdioPc = "send"
    /\ CanSend(errStdioCh)
    /\ errStdioCh' = Send(errStdioCh, stdioErr)
    /\ stdioPc' = "close"
    /\ UNCHANGED <<enableStdio, mainPc, defers, selected, httpPc, httpErr, stdioErr,
                   errHTTPCh, shutdown, signals, inShutdown, ctxDone, mainLog, notMn>>

\* defer close(errStdioCh)
StdioClose ==
    /\ stdioPc = "close"
    /\ errStdioCh' = Close(errStdioCh)
    /\ stdioPc' = "exited"
    /\ UNCHANGED <<enableStdio, mainPc, defers, selected, httpPc, httpErr, stdioErr,
                   errHTTPCh, shutdown, signals, inShutdown, ctxDone, mainLog, notMn>>

\* SIGTERM or SIGINT arrives while the process runs
Signal ==
    /\ mainPc # "exited"
    /\ signals < MaxSignals
    /\ signals' = signals + 1
    /\ shutdown' = IF shutdown < 1 THEN shutdown + 1 ELSE shutdown
    /\ UNCHANGED <<enableStdio, mainPc, defers, selected, httpPc, httpErr, stdioPc, stdioErr,
                   errHTTPCh, errStdioCh, inShutdown, ctxDone, mainLog, notMn>>

MainStep ==
    \/ ServeHTTPCall \/ ServeStdioCall
    \/ SelectHTTP \/ SelectStdio \/ SelectShutdown
    \/ StopStdioCancel \/ StopStdioRecv
    \/ StopHTTPShutdown \/ ShutdownReturn \/ StopHTTPRecv
    \/ DeferredPersist \/ DeferredPersistLogs \/ Exit

HttpStep == HttpServe \/ ServeClosed \/ HttpSend \/ HttpClose

StdioStep == StdioRun \/ RunCancelled \/ StdioSend \/ StdioClose

NextMn ==
    \/ MainStep
    \/ HttpStep
    \/ StdioStep
    \/ ServeFail
    \/ RunFail
    \/ RunEnd
    \/ Signal

SpecMn == InitMn /\ [][NextMn]_vars

\* The goroutines are scheduled, and srv.Shutdown, srv.Serve after
\* Shutdown and srv.Run after cancel return.  A listener error, a transport
\* error, the end of the session and a signal may never happen.
FairSpecMn ==
    InitMn /\ [][NextMn]_vars /\ WF_vars(MainStep) /\ WF_vars(HttpStep) /\ WF_vars(StdioStep)

\* ------------------------------------------------------------ properties
\* the table elements of the subtree of n, in document (pre-)order
RECURSIVE TablesOf(_)
TablesOf(n) ==
    (IF n.Type = "elem" /\ n.Data = "table" THEN <<n>> ELSE <<>>)
    \o Flatten([i \in DOMAIN n.kids |-> TablesOf(n.kids[i])])

Range(f) == {f[i] : i \in DOMAIN f}

Finished == pc = "done" /\ status = "ok"
AllRunsOk == Finished /\ \A i \in DOMAIN results : results[i].status = "ok"

\* C1: UnwrapTableLayout is idempotent: applied to its own output it returns
\* that output unchanged (second and third application change nothing).
C1_Idempotent ==
    (AllRunsOk /\ Len(results) >= 1) => out = results[Len(results)].out

\* --- C2
HasMultiCellRow(t) ==
    LET rows == RowsOf(t) IN \E i \in DOMAIN rows : countCellsInRow(rows[i]) >= 2
IsHeaderOrMultiColumn(t) == hasTableHeaders(t) \/ HasMultiCellRow(t)

\* the header-bearing or multi-column tables of a document, in document
\* order, each identified by its attribute list
DataTableAttrs(d) ==
    LET ts == SelectSeq(TablesOf(d), IsHeaderOrMultiColumn)
    IN  [i \in DOMAIN ts |-> ts[i].Attr]

\* C2: every table that contains a th or thead, or has a row of two or more
\* cells, is still a table element of the output, whatever its id and
\* wherever it is nested.
C2_DataTablesPreserved ==
    Finished => /\ DataTableAttrs(Parse(out)) = DataTableAttrs(Parse(htmlContent))
                /\ \A i \in DOMAIN unwrapLog : ~IsHeaderOrMultiColumn(unwrapLog[i].table)

C2_Witness ==
    /\ Finished
    /\ unwrapLog # <<>>
    /\ \E t \in Range(TablesOf(Parse(htmlContent))) :
          IsHeaderOrMultiColumn(t) /\ hasLayoutId(t)

\* --- C3
IsConsistentMultiRow(t) ==
    /\ ~hasTableHeaders(t)
    /\ countTableColumns(t) <= 1
    /\ ~hasLayoutId(t)
    /\ countContentRows(t) > contentRowThreshold
    /\ hasConsistentRowStructure(t)

\* C3: a consistently-structured multi-row single-column table is left
\* untouched, also inside a cell of a table that is itself unwrapped.
C3_ConsistentTableUntouched ==
    Finished =>
        \A t \in Range(TablesOf(Parse(htmlContent))) :
            (IsConsistentMultiRow(t) /\ TablesOf(t) = <<t>>)
                => t \in Range(TablesOf(Parse(out)))

\* --- C4
\* the rows of a table: the tr elements reached from it through table
\* wrappers other than tr
RECURSIVE TopRows(_)
TopRows(n) ==
    IF n.Type = "elem" /\ n.Data = "tr" THEN <<n>>
    ELSE IF n.Type = "elem" /\ isTableElement(n.Data)
         THEN Flatten([i \in DOMAIN n.kids |-> TopRows(n.kids[i])])
    ELSE <<>>

IsBlankText(n) == n.Type = "text" /\ TrimSpace(n.Chars) = <<>>

\* what one row hands over: the non-blank text and the elements of its
\* cells, a table nested directly in a cell being replaced the same way
RECURSIVE RowNodes(_), Promoted(_)
RowNodes(row) ==
    Flatten([i \in DOMAIN row.kids |->
        Flatten([j \in DOMAIN row.kids[i].kids |-> Promoted(row.kids[i].kids[j])])])

Promoted(x) ==
    IF x.Type = "text" THEN IF IsBlankText(x) THEN <<>> ELSE <<x>>
    ELSE IF x.Type # "elem" THEN <<>>
    ELSE IF ~isTableElement(x.Data) THEN <<x>>
    ELSE LET rows == TopRows(x)
         IN  Flatten([j \in DOMAIN rows |->
                IF RowNodes(rows[j]) = <<>> THEN <<>>
                ELSE RowNodes(rows[j]) \o <<Text(<<"n">>)>>])

RowsJoined(table) ==
    LET rows == TopRows(table)
    IN  Flatten([j \in DOMAIN rows |->
            IF RowNodes(rows[j]) = <<>> THEN <<>>
            ELSE RowNodes(rows[j]) \o <<Text(<<"n">>)>>])

\* C4: an unwrapped table is replaced by, for each row in document order,
\* the row's extracted nodes followed by exactly one text node "\n" (nothing
\* for a row that extracts nothing); no table wrapper of it remains.
C4_RowsJoinedByNewline ==
    \A i \in DOMAIN unwrapLog :
        /\ unwrapLog[i].content = RowsJoined(unwrapLog[i].table)
        /\ \A j \in DOMAIN unwrapLog[i].content :
              LET x == unwrapLog[i].content[j]
              IN  ~(x.Type = "elem" /\ isTableElement(x.Data))

C4_Witness ==
    /\ Finished
    /\ \E i \in DOMAIN unwrapLog :
          LET rows == TopRows(unwrapLog[i].table)
          IN  /\ unwrapLog[i].table.Attr = Id(<<"main">>)
              /\ \E j \in DOMAIN rows : RowNodes(rows[j]) = <<>>
              /\ \E j \in DOMAIN rows : RowNodes(rows[j]) # <<>>
              /\ Len(unwrapLog[i].content) >= 2 * contentRowThreshold

\* --- C5
\* C5: UnwrapTableLayout always returns: the input unchanged when parsing
\* fails, the input unchanged when rendering fails, the rendered tree
\* otherwise.
C5_FailSoft ==
    /\ pc = "done" =>
          /\ status \in {"parse_error", "render_error", "ok"}
          /\ status = "parse_error" => out = htmlContent /\ doc = NoDoc
          /\ status = "render_error" => out = htmlContent
          /\ status = "ok" => out = Render(doc) /\ (~changed \/ iter = maxIterations)
    /\ pc \in {"parse", "loop", "render", "done"}
    /\ pc = "loop" => iter < maxIterations

C5_Witness ==
    /\ pc = "done"
    /\ status = "render_error"
    /\ unwrapLog # <<>>
    /\ out = htmlContent
    /\ out # Render(doc)

\* --- C6
\* every text node is whitespace or the "&nbsp;" placeholder and there is
\* nothing else in the cells
RECURSIVE OnlyBlankContent(_)
OnlyBlankContent(n) ==
    IF n.Type = "text" THEN TrimSpace(n.Chars) \in {<<>>, NbspLiteral}
    ELSE IF n.Type = "elem" /\ ~isTableElement(n.Data) THEN FALSE
    ELSE \A i \in DOMAIN n.kids : OnlyBlankContent(n.kids[i])

\* C6: a table with no rows, or whose only cell content is whitespace or
\* the "&nbsp;" placeholder, unwraps to an empty content list.
C6_BlankTableVanishes ==
    \A i \in DOMAIN unwrapLog :
        OnlyBlankContent(unwrapLog[i].table) => unwrapLog[i].content = <<>>

\* --- C9
\* C9: decodeBase64URL never reports an error: what a padded or an unpadded
\* URL-safe encoder produced decodes to the encoded bytes, the padded
\* decoding is taken when it succeeds, the unpadded one otherwise, and a
\* string neither decoder accepts is returned unchanged.
C9_DecodeFailSoft ==
    decoded.returned =>
        /\ \A b \in ByteStrings :
              data \in {URLEncode(b), RawURLEncode(b)} => decoded.value = b
        /\ ~URLEncodingDecode(data).err => decoded.value = URLEncodingDecode(data).bytes
        /\ (URLEncodingDecode(data).err /\ ~RawURLEncodingDecode(data).err)
              => decoded.value = RawURLEncodingDecode(data).bytes
        /\ (URLEncodingDecode(data).err /\ RawURLEncodingDecode(data).err)
              => decoded.value = data

C9_Witness ==
    /\ decoded.returned
    /\ URLEncodingDecode(data).err
    /\ ~RawURLEncodingDecode(data).err
    /\ Len(decoded.value) = 2
    /\ decoded.value # data

C9_WitnessCorrupt ==
    /\ decoded.returned
    /\ URLEncodingDecode(data).err
    /\ RawURLEncodingDecode(data).err
    /\ decoded.value = data
    /\ Len(data) = MaxDataLen

\* --- C7
\* C7: previewText takes a non-empty plain body verbatim without calling the
\* converter; the converter is called only with no plain body and a
\* non-empty HTML body; with neither body BodyText is empty and the message
\* is appended.
C7_PlainPreferred ==
    [][gmPc = "preview" =>
        /\ textBody # <<>> =>
              /\ gmPc' = "append"
              /\ content'.BodyText = textBody
              /\ convLog' = convLog
        /\ (textBody = <<>> /\ htmlBody = <<>>) =>
              /\ gmPc' = "append"
              /\ content'.BodyText = <<>>
              /\ convLog' = convLog
              /\ gmResult' = "running"
        /\ convLog' # convLog =>
              /\ textBody = <<>>
              /\ htmlBody # <<>>
              /\ convLog' = Append(convLog, htmlBody)
              /\ gmPc' = "append" => content'.BodyText = Markdown(htmlBody)]_vars

C7_Witness ==
    /\ gmPc = "append"
    /\ textBody # <<>>
    /\ htmlBody # <<>>
    /\ content.BodyText = textBody
    /\ convLog = <<>>

\* --- C8
CurrentMessage == IF ids[msgIndex] = "m1" THEN msg ELSE Mailbox(msg).m2

\* the first body found at the root or in a direct child, in order
DirectBodies(payload) ==
    LET level == <<payload>> \o payload.Parts
        found == [i \in DOMAIN level |-> extractBodyFromPart(level[i])]
        texts == SelectSeq(found, LAMBDA b : b.textBody # <<>>)
        htmls == SelectSeq(found, LAMBDA b : b.htmlBody # <<>>)
    IN  [textBody |-> IF texts = <<>> THEN <<>> ELSE texts[1].textBody,
         htmlBody |-> IF htmls = <<>> THEN <<>> ELSE htmls[1].htmlBody]

\* C8: a body at the root or in a direct child is selected in preference to
\* one nested deeper, whatever the order of the sibling parts.
C8_ShallowBeforeDeep ==
    gmPc = "preview" =>
        LET direct == DirectBodies(CurrentMessage.Payload)
        IN  /\ direct.textBody # <<>> => textBody = direct.textBody
            /\ direct.htmlBody # <<>> => htmlBody = direct.htmlBody

\* --- C10
\* the parts of the tree, parent before children, children in order
RECURSIVE PartsPreOrder(_)
PartsPreOrder(part) ==
    <<part>> \o Flatten([i \in DOMAIN part.Parts |-> PartsPreOrder(part.Parts[i])])

HasAttachmentId(part) == ~part.Body.isNil /\ part.Body.AttachmentId # ""

\* C10: extractAttachments lists, depth-first and parent before children,
\* exactly the parts that carry an attachment id: one descriptor each.
C10_AttachmentsPreOrder ==
    gmPc = "preview" =>
        LET carriers == SelectSeq(PartsPreOrder(CurrentMessage.Payload), HasAttachmentId)
        IN  /\ Len(content.Attachments) = Len(carriers)
            /\ \A i \in DOMAIN carriers :
                  /\ content.Attachments[i].Filename = carriers[i].Filename
                  /\ content.Attachments[i].MimeType = carriers[i].MimeType
                  /\ content.Attachments[i].Size = carriers[i].Body.Size

\* ------------------------------------------- properties: PreviewAttachments
PaDone == paPc = "done"

\* C11: a failure on one item, the failure to fetch that attachment's data
\* included, never discards the previews of the items already processed:
\* unless the message or the attachment metadata could not be resolved, the
\* response holds every preview built so far.
C11_PartialSuccess ==
    (PaDone /\ paResult \notin {"get message failed", "No attachmentID found", "panic"})
        => paResponse = previews

\* C12: in every returned AttachmentPreview exactly one of Content and
\* Error is populated: never both, never neither.
C12_ContentXorError ==
    \A i \in DOMAIN paResponse :
        (paResponse[i].Content # <<>>) # (paResponse[i].Error # "")

Unresolvable(partID) ==
    \/ ~paMsg.hasPayload
    \/ findAttachmentMetadata(paMsg.Payload, partID).isNil
    \/ findAttachmentMetadata(paMsg.Payload, partID).part.Body.isNil
    \/ findAttachmentMetadata(paMsg.Payload, partID).part.Body.AttachmentId = ""

\* C13: when the parent message cannot be fetched, or the id at hand cannot
\* be resolved to attachment metadata (no matching part, no payload, a
\* matching part without attachment reference), the call ends with an error
\* value and no previews; it does not crash.
C13_UnresolvedIsCallError ==
    (/\ PaDone
     /\ \/ paResult = "get message failed"
        \/ paResult # "ok" /\ paIndex <= Len(paIds) /\ Unresolvable(paIds[paIndex]))
        => paResult \in {"get message failed", "No attachmentID found"} /\ paResponse = <<>>

Undecodable(d) == URLEncodingDecode(d).err /\ RawURLEncodingDecode(d).err
Unsupported(mimeType, filename) ==
    /\ ~HasPrefix(mimeType, "text/")
    /\ mimeType # ApplicationPdf
    /\ ~HasSuffix(filename, ".txt")
    /\ ~HasSuffix(filename, ".md")
    /\ ~HasSuffix(filename, ".csv")
PerItemFailure(i) ==
    Undecodable(paData[i]) \/ Unsupported(previews[i].MimeType, previews[i].Filename)

\* C14: an attachment whose data cannot be decoded, or whose type and file
\* name are not recognised, gets an error string in its own preview and no
\* content; the call goes on, and once every id has its preview it succeeds
\* with one preview per requested id, in request order.
C14_PerItemError ==
    /\ Len(previews) = Len(paData)
    /\ Len(previews) <= Len(paIds)
    /\ \A i \in DOMAIN previews :
          /\ previews[i].ID = paIds[i]
          /\ PerItemFailure(i) => previews[i].Error # "" /\ previews[i].Content = <<>>
    /\ (PaDone /\ Len(previews) = Len(paIds)) => paResult \in {"ok", "get message failed"}
    /\ (PaDone /\ paResult = "ok") => paResponse = previews /\ Len(paResponse) = Len(paIds)

C14_Witness ==
    /\ PaDone
    /\ paResult = "ok"
    /\ \E i, j \in DOMAIN paResponse :
          /\ Undecodable(paData[i])
          /\ ~Undecodable(paData[j])
          /\ Unsupported(paResponse[j].MimeType, paResponse[j].Filename)
          /\ paResponse[i].Error = "failed to decode attachment"
          /\ paResponse[j].Error = "unsupported file type"

\* --------------------------------------------------- properties: GetMessages
IsPrefix(s, t) == Len(s) <= Len(t) /\ \A i \in DOMAIN s : s[i] = t[i]

\* C15: GetMessages is all-or-nothing and order-preserving.  On success the
\* response holds exactly one MessageContent per requested id, in request
\* order; when a fetch or an HTML conversion fails the response is empty;
\* svc.GetMessage is called once per requested entry, in order, and never
\* again for an entry already asked for.
C15_AllOrNothing ==
    /\ IsPrefix(getLog, ids)
    /\ (gmPc = "done" /\ gmResult = "ok") =>
          /\ getLog = ids
          /\ Len(messages) = Len(ids)
          /\ \A i \in DOMAIN messages : messages[i].Summary.ID = ids[i]
    /\ (gmPc = "done" /\ gmResult = "error") => messages = <<>>

\* the second fetch fails after the first message was built
C15_Witness ==
    /\ gmPc = "done"
    /\ gmResult = "error"
    /\ msgIndex = 2
    /\ getLog = ids
    /\ convLog = <<>>

\* --------------------------------------------- properties: parseEmailAddress
\* the parsing rules of parseEmailAddress
AddressShape ==
    addr.returned =>
        IF \E i \in DOMAIN from : from[i] = "<"
        THEN LET lt == MinOf({i \in DOMAIN from : from[i] = "<"})
                 gts == {i \in DOMAIN from : i > lt /\ from[i] = ">"}
             IN  /\ addr.Name = TrimQuotes(TrimSpace(SubSeq(from, 1, lt - 1)))
                 /\ gts # {} => addr.Email = TrimSpace(SubSeq(from, lt + 1, MinOf(gts) - 1))
                 /\ gts = {} => addr.Email = <<>>
        ELSE addr.Email = TrimSpace(from) /\ addr.Name = <<>>

\* C18: every non-empty header value yields an address with a non-empty
\* Email.  With a '<' the Name is the trimmed text before it, surrounding
\* double quotes removed, and Email the trimmed text between it and the next
\* '>'; without a '<' Email is the trimmed value and Name is empty.
C18_EmailMandatory ==
    /\ (addr.returned /\ from # <<>>) => addr.Email # <<>>
    /\ AddressShape

\* ------------------------------------------------ properties: SearchMessages
\* C16: on success SearchMessages returns one summary per id of the
\* provider's list, in the provider's order, TotalResults is the number of
\* summaries and NextPageToken the provider's token; when the list call or a
\* metadata fetch fails the response is empty.
C16_OneSummaryPerListedId ==
    /\ (smPc = "done" /\ smResult = "ok") =>
          /\ Len(smResponse.Messages) = Len(result.Messages)
          /\ \A i \in DOMAIN smResponse.Messages :
                smResponse.Messages[i].ID = result.Messages[i]
          /\ smResponse.TotalResults = Len(smResponse.Messages)
          /\ smResponse.NextPageToken = result.NextPageToken
    /\ (smPc = "done" /\ smResult = "error") => smResponse = EmptySearchResponse
    /\ smResult = "running" => smResponse = EmptySearchResponse

C16_Witness ==
    /\ smPc = "done"
    /\ smResult = "ok"
    /\ smResponse.TotalResults = 2
    /\ smResponse.Messages[1].ID = "m2"
    /\ smResponse.Messages[2].ID = "m1"
    /\ smResponse.NextPageToken = "tok"
    /\ listArg = defaultMaxResults

\* ----------------------------------------------------- properties: Converter
CvCreated(c) == tmpName[c] # ""
CvLive(c) == cvPc[c] \in {"created", "tool", "deferred"}

\* C17: each call works on a temporary file or directory of its own, and
\* once the call has returned after creating it the removal has run: the
\* file is gone, or the removal failed and that was logged.  The caller gets
\* the value and error of the return statement whatever the cleanup did.
C17_TempRemoved ==
    \A c \in Calls :
        /\ CvLive(c) => CvCreated(c) /\ owner[tmpName[c]] = c
        /\ \A d \in Calls : (d # c /\ CvLive(c) /\ CvLive(d)) => tmpName[c] # tmpName[d]
        /\ (cvPc[c] = "done" /\ CvCreated(c)) =>
              /\ cleaned[c] \in {"removed", "failed"}
              /\ cleaned[c] = "removed" => (\A n \in TempNames : owner[n] # c) /\ ~written[c]
              /\ cleaned[c] = "failed" => "Remove failed" \in cvLog[c]
        /\ cvPc[c] = "done" => returned[c] = ret[c] /\ ret[c] # NoReturn
        /\ (cvPc[c] = "done" /\ ~CvCreated(c)) => cleaned[c] = "no" /\ cvLog[c] = {}

\* one call failed to write, the other ran to the end and could not remove
\* its file; both were cleaned up after
C17_Witness ==
    \E c, d \in Calls :
        /\ cvPc[c] = "done" /\ cvPc[d] = "done"
        /\ kind[c] = "HTML2MD" /\ kind[d] = "PDF2Text"
        /\ returned[c].err = "write failed" /\ cleaned[c] = "removed"
        /\ returned[d] = [val |-> "output", err |-> ""]
        /\ cleaned[d] = "failed" /\ written[d]

\* --------------------------------------------- properties: shouldUnwrapTable
\* every node of the subtree of n, n included
RECURSIVE NodesOf(_)
NodesOf(n) == {n} \cup UNION {NodesOf(n.kids[i]) : i \in DOMAIN n.kids}

IsTag(n, tags) == n.Type = "elem" /\ n.Data \in tags
\* the tr elements of the subtree in document order, equal rows listed
\* once each
RECURSIVE RowList(_)
RowList(n) ==
    (IF IsTag(n, {"tr"}) THEN <<n>> ELSE <<>>)
    \o Flatten([i \in DOMAIN n.kids |-> RowList(n.kids[i])])
CellCount(row) == Cardinality({i \in DOMAIN row.kids : IsTag(row.kids[i], {"td", "th"})})
HasNonBlankText(row) ==
    \E n \in NodesOf(row) :
        n.Type = "text" /\ TrimSpace(n.Chars) # <<>> /\ TrimSpace(n.Chars) # NbspLiteral

Rule1_Headers(t) == \E n \in NodesOf(t) : IsTag(n, {"th", "thead"})
ContentRowCount(t) ==
    Cardinality({i \in DOMAIN RowList(t) : HasNonBlankText(RowList(t)[i])})

Rule2_MultiColumn(t) == \E i \in DOMAIN RowList(t) : CellCount(RowList(t)[i]) > 1
Rule3_LayoutId(t) ==
    \E i \in DOMAIN t.Attr :
        /\ t.Attr[i].Key = "id"
        /\ t.Attr[i].Val = <<"main">> \/ Contains(t.Attr[i].Val, "layout")
                                      \/ Contains(t.Attr[i].Val, "wrapper")
Rule4_DataRows(t) ==
    /\ ContentRowCount(t) > 5
    /\ Len(RowList(t)) >= 2
    /\ \A i, j \in DOMAIN RowList(t) : CellCount(RowList(t)[i]) = CellCount(RowList(t)[j])

ChainSaysUnwrap(t) ==
    IF Rule1_Headers(t) THEN FALSE
    ELSE IF Rule2_MultiColumn(t) THEN FALSE
    ELSE IF Rule3_LayoutId(t) THEN TRUE
    ELSE IF Rule4_DataRows(t) THEN FALSE
    ELSE TRUE

\* C19: shouldUnwrapTable decides by the first rule that applies, in the
\* order headers -> keep, more than one column -> keep, layout id -> unwrap,
\* more than 5 content rows of equal cell count -> keep, otherwise unwrap.
\* A th-bearing single-column table with id "main" is kept; a headerless
\* single-column table with exactly 5 content rows is unwrapped.
C19_DecisionChain ==
    decision.decided =>
        /\ decision.unwrap = ChainSaysUnwrap(candidate)
        /\ (Rule1_Headers(candidate) /\ ~Rule2_MultiColumn(candidate) /\ Rule3_LayoutId(candidate))
              => ~decision.unwrap
        /\ (/\ ~Rule1_Headers(candidate)
            /\ ~Rule2_MultiColumn(candidate)
            /\ ContentRowCount(candidate) = 5)
              => decision.unwrap

\* the th-bearing single-column table with id "main"
C19_Witness ==
    /\ decision.decided
    /\ ~decision.unwrap
    /\ candidate = MkTable(Id(<<"main">>), FALSE, <<HeaderRow>>, 0)

\* the headerless single-column table with 5 content rows and a blank one,
\* all of one cell, and no layout id
C19_WitnessFiveRows ==
    /\ decision.decided
    /\ decision.unwrap
    /\ candidate = MkTable(<<>>, FALSE, <<Tr(<<Td(<<Text(<<"s">>)>>)>>)>>, 5)

\* ---------------------------------------------------- properties: unwrapTable
Ptrs(kids) == {kids[k].ptr : k \in DOMAIN kids}
NodeList(kids) == [k \in DOMAIN kids |-> kids[k].node]

\* C20: unwrapTable changes only the table's place in its parent's child
\* list.  The children before the table and those after it are the same
\* nodes, unchanged and in the same order; between them stand the extracted
\* nodes, all new, in extraction order; the table is no longer a child.
C20_OnlyTableReplaced ==
    uwDone =>
        LET extracted == extractTableContent(uwOrig[uwPos].node)
            n == Len(extracted)
        IN  /\ Len(uwParent) = Len(uwOrig) - 1 + n
            /\ \A k \in 1..(uwPos - 1) : uwParent[k] = uwOrig[k]
            /\ \A k \in 1..n :
                  /\ uwParent[uwPos - 1 + k].node = extracted[k]
                  /\ uwParent[uwPos - 1 + k].ptr \notin Ptrs(uwOrig)
            /\ \A k \in (uwPos + 1)..Len(uwOrig) : uwParent[k - 1 + n] = uwOrig[k]
            /\ uwOrig[uwPos].ptr \notin Ptrs(uwParent)
            /\ Cardinality(Ptrs(uwParent)) = Len(uwParent)
            /\ NodeList(uwParent) =
                  Flatten([k \in DOMAIN uwOrig |->
                              IF k = uwPos THEN unwrapTable(uwOrig[k].node)
                              ELSE <<uwOrig[k].node>>])

\* a table with several extracted nodes, between two siblings, the second a
\* table equal to a kept one
C20_Witness ==
    /\ uwDone
    /\ Len(uwOrig) = 3
    /\ uwPos = 2
    /\ Len(uwParent) > 4
    /\ uwOrig[3].node.Data = "table"
    /\ uwParent[Len(uwParent)] = uwOrig[3]
    /\ uwParent[1] = uwOrig[1]
\* --- C21
IsContiguousAt(kids, part, off) ==
    /\ off + Len(part) <= Len(kids)
    /\ \A m \in DOMAIN part : kids[off + m] = part[m]

\* the cells (td, th) of the rows of a table
CellsOf(table) ==
    LET rows == TopRows(table)
    IN  Flatten([j \in DOMAIN rows |->
            SelectSeq(rows[j].kids,
                      LAMBDA c : c.Type = "elem" /\ (c.Data = "td" \/ c.Data = "th"))])

NonBlank(nodes) == SelectSeq(nodes, LAMBDA x : ~IsBlankText(x))
BlankCount(nodes) == Len(SelectSeq(nodes, IsBlankText))

\* entry i of the log is an unwrap whose inserted nodes stand directly in
\* cell c of the table of the later entry j
InnerOf(i, j, c, off) ==
    /\ i < j
    /\ unwrapLog[i].content # <<>>
    /\ IsContiguousAt(c.kids, unwrapLog[i].content, off)

ExtractAll(nodes) == Flatten([m \in DOMAIN nodes |-> extractTableContent(nodes[m])])

ComplexNestingResult ==
    <<OpenTok("html", <<>>), OpenTok("head", <<>>), CloseTok("head"), OpenTok("body", <<>>),
      TextTok(<<"n", "s", "H", "B", "F", "n", "n", "s">>),
      CloseTok("body"), CloseTok("html")>>

\* C21: when the nodes inserted by an inner unwrap stand in a cell of a table
\* unwrapped later in the same run, the outer extraction drops the inner
\* "\n" nodes: of the inner unwrap only its non-blank nodes are taken, back
\* to back, and once every nested table is unwrapped the only
\* whitespace-only nodes of the outer content are the line breaks of the
\* outer table's own rows; the three-section document of
\* the nesting test gives the three texts adjacent and one newline.
C21_InnerBreaksDropped ==
    /\ \A j \in DOMAIN unwrapLog :
          LET cells == CellsOf(unwrapLog[j].table)
              rows == TopRows(unwrapLog[j].table)
          IN  /\ \A k \in DOMAIN cells : \A i \in 1..(j - 1) : \A off \in 0..Len(cells[k].kids) :
                    InnerOf(i, j, cells[k], off) =>
                        extractTableContent(cells[k]) =
                            ExtractAll(SubSeq(cells[k].kids, 1, off))
                            \o NonBlank(unwrapLog[i].content)
                            \o ExtractAll(SubSeq(cells[k].kids, off + Len(unwrapLog[i].content) + 1,
                                                 Len(cells[k].kids)))
              /\ TablesOf(unwrapLog[j].table) = <<unwrapLog[j].table>> =>
                    BlankCount(unwrapLog[j].content) =
                        Cardinality({r \in DOMAIN rows : extractTableContent(rows[r]) # <<>>})
    /\ (Finished /\ results = <<>> /\ htmlContent = Render(Document(<<Elem("html", <<>>,
            <<Elem("head", <<>>, <<>>), Elem("body", <<>>, <<Ws, ComplexNesting, Ws>>)>>)>>)))
          => out = ComplexNestingResult

C21_Witness ==
    /\ Finished
    /\ Len(unwrapLog) = 5
    /\ out = ComplexNestingResult
    /\ \E c \in Range(CellsOf(unwrapLog[5].table)) : InnerOf(4, 5, c, 1)
    /\ BlankCount(unwrapLog[4].content) = 3
    /\ BlankCount(unwrapLog[5].content) = 1
\* --- C22
RECURSIVE NodesUnder(_, _)
NodesUnder(h, n) ==
    {n} \cup UNION {NodesUnder(h, h[n].kids[i]) : i \in DOMAIN h[n].kids}

\* every node of the tree but the root has one parent, which lists it once
WellFormed(h) ==
    LET live == NodesUnder(h, Root)
    IN  /\ h[Root].Parent = Nil
        /\ \A p \in live : \A i \in DOMAIN h[p].kids :
              /\ h[h[p].kids[i]].Parent = p
              /\ \A j \in DOMAIN h[p].kids : h[p].kids[j] = h[p].kids[i] => j = i
        /\ \A c \in live \ {Root} :
              Cardinality({p \in live : \E i \in DOMAIN h[p].kids : h[p].kids[i] = c}) = 1

\* C22: after every pass the document is a tree of owned nodes: the root has
\* no parent, every other node of the tree is listed exactly once, by the
\* node its Parent names; and every clone made during an unwrap has the tag,
\* attributes and descendants of its original, white space included, and no
\* node in common with the table taken out, which is out of the tree.
C22_OwnershipTree ==
    /\ WellFormed(heap)
    /\ \A k \in DOMAIN cloneLog :
          LET e == cloneLog[k]
          IN  /\ TreeOf(heap, e.clone) = TreeOf(heap, e.src)
              /\ NodesUnder(heap, e.clone) \cap NodesUnder(heap, e.table) = {}
              /\ e.src \in NodesUnder(heap, e.table)
    /\ \A k \in DOMAIN removed :
          /\ heap[removed[k]].Parent = Nil
          /\ NodesUnder(heap, removed[k]) \cap NodesUnder(heap, Root) = {}

\* a clone with white space and an element inside, one of a clone of a
\* clone, after the second pass
C22_Witness ==
    /\ hpPc = "done"
    /\ hpIter = 2
    /\ \E k \in DOMAIN cloneLog :
          /\ Cardinality(NodesUnder(heap, cloneLog[k].clone)) >= 5
          /\ cloneLog[k].clone \in NodesUnder(heap, Root)
    /\ Len(removed) >= 1
\* --- C23
\* the tables strictly inside table t
InnerTablesOf(t) == SubSeq(TablesOf(t), 2, Len(TablesOf(t)))

C23_LoopBounded ==
    /\ iter <= maxIterations
    /\ pc = "loop" => iter < maxIterations /\ (iter = 0 \/ changed)
    /\ (pc \in {"render", "done"} /\ status # "parse_error") =>
          iter >= 1 /\ (~changed \/ iter = maxIterations)
    /\ \A j \in DOMAIN unwrapLog :
          \A t \in Range(InnerTablesOf(unwrapLog[j].table)) : ~shouldUnwrapTable(t)

\* C23: the loop of UnwrapTableLayout ends.  Every step taken in the loop is
\* one more pass, it makes at most 10 passes, goes on only after a pass that
\* changed something and leaves for the rendering after the first pass
\* without change; a table is decided when everything
\* below it has been simplified, so no table inside a table being unwrapped
\* is itself still to be unwrapped.
C23_LoopTerminates ==
    /\ []C23_LoopBounded
    /\ [][pc = "loop" =>
            /\ iter' = iter + 1
            /\ pc' = IF changed' /\ iter' < maxIterations THEN "loop" ELSE "render"]_vars

C23_Witness ==
    /\ pc = "render"
    /\ iter = 2
    /\ ~changed
    /\ Len(unwrapLog) >= 2
    /\ \E j \in DOMAIN unwrapLog : \E c \in Range(CellsOf(unwrapLog[j].table)) :
          \E i \in 1..(j - 1) : InnerOf(i, j, c, 0)
\* --- C24
NoTableToUnwrap(d) == \A t \in Range(TablesOf(d)) : ~shouldUnwrapTable(t)

\* C24: one pass does all the unwrapping.  After the first pass no table of
\* the tree is one shouldUnwrapTable accepts, the second pass changes
\* neither the tree nor the log and reports no change, the loop never makes
\* a third pass, and the tree rendered holds no table to unwrap.
C24_OnePassSuffices ==
    /\ [](/\ (pc \in {"loop", "render", "done"} /\ iter >= 1) => NoTableToUnwrap(doc)
          /\ iter <= 2
          /\ iter = 2 => ~changed
          /\ (pc \in {"render", "done"} /\ status # "parse_error") =>
                Len(unwrapLog) > 0 <=> iter = 2)
    /\ [][(pc = "loop" /\ iter = 1) =>
             /\ doc' = doc
             /\ unwrapLog' = unwrapLog
             /\ ~changed'
             /\ pc' = "render"]_vars

\* the four nested tables of the test are all gone after the first pass
C24_Witness ==
    /\ pc = "loop"
    /\ iter = 1
    /\ changed
    /\ Len(unwrapLog) = 4
    /\ TablesOf(doc) = <<>>
    /\ \A j \in 1..3 : \E c \in Range(CellsOf(unwrapLog[j + 1].table)) : InnerOf(j, j + 1, c, 1)
\* --- C25
\* table t has a header or a row of several cells in a table nested in it
IsAncestorOfData(t) == \E u \in Range(InnerTablesOf(t)) : IsHeaderOrMultiColumn(u)

\* C25: the header and column rules look at everything below the table.  A
\* table of the input with a th, a thead or a row of several cells anywhere
\* below it is refused by shouldUnwrapTable whatever its id and its own
\* rows, and it is still in the output, with the same attributes and the
\* same header-bearing and multi-column tables below it.
C25_AncestorsSurvive ==
    Finished =>
        \A t \in Range(TablesOf(Parse(htmlContent))) :
            IsHeaderOrMultiColumn(t) =>
                /\ ~shouldUnwrapTable(t)
                /\ \E t2 \in Range(TablesOf(Parse(out))) :
                      /\ t2.Attr = t.Attr
                      /\ DataTableAttrs(t2) = DataTableAttrs(t)

\* an id=main table with single-cell rows of its own around an element
\* that holds a table with a two-cell row
C25_Witness ==
    /\ Finished
    /\ \E t \in Range(TablesOf(Parse(htmlContent))) :
          /\ hasLayoutId(t)
          /\ IsAncestorOfData(t)
          /\ \A r \in Range(TopRows(t)) : countCellsInRow(r) = 1
          /\ \E r \in Range(TopRows(t)) : \E c \in DOMAIN r.kids :
                \E k \in DOMAIN r.kids[c].kids :
                    /\ r.kids[c].kids[k].Data = "div"
                    /\ ~hasTableHeaders(r.kids[c].kids[k])
                    /\ HasMultiCellRow(r.kids[c].kids[k])
          /\ t \in Range(TablesOf(Parse(out)))
\* --- C26
\* C26: every descriptor extractAttachments returns for a message names a
\* part findAttachmentMetadata finds in the same message: the part found
\* carries an attachment id and is the part described (same file name, MIME
\* type and size), the root part included.
C26_DescriptorsResolve ==
    gmPc = "preview" =>
        \A i \in DOMAIN content.Attachments :
            LET a == content.Attachments[i]
                found == findAttachmentMetadata(CurrentMessage.Payload, a.ID)
            IN  /\ ~found.isNil
                /\ HasAttachmentId(found.part)
                /\ found.part.Filename = a.Filename
                /\ found.part.MimeType = a.MimeType
                /\ found.part.Body.Size = a.Size
\* --- C27
\* C27: the page size handed to svc.ListMessages is in 1..50 for every
\* requested size: 10 for 0, 50 for a size above 50, the size itself when it
\* is in 1..50, and never a value outside 1..50.
C27_PageSizeInRange ==
    smPc # "list" =>
        /\ listArg \in 1..maxMaxResults
        /\ input.MaxResults = 0 => listArg = defaultMaxResults
        /\ input.MaxResults > maxMaxResults => listArg = maxMaxResults
        /\ input.MaxResults \in 1..maxMaxResults => listArg = input.MaxResults
\* ------------------------------------------------- properties: auth.Token
\* --- C28
C28_StoreInv ==
    /\ DOMAIN stateStore \subseteq issued
    /\ \A s \in DOMAIN stateStore : stateStore[s] <= now + stateTTL
    /\ \A s \in RequestStates :
          /\ validated[s] <= 1
          /\ validated[s] = 1 => s # "" /\ s \in issued /\ s \notin DOMAIN stateStore
    /\ \A p \in Handlers : auPc[p] = "vBody" => mu = p

\* the step in which handler p's ValidateState runs under the lock
ValidateStep(p) == auPc[p] = "vBody" /\ auPc'[p] = "authorize"

\* C28: a state is good for one validation within five minutes.  A state
\* enters the store with the expiry now + 5; ValidateState returns true
\* only for a non-empty state that generateState issued, that is in the
\* store, that no call validated before and whose expiry has not passed;
\* the empty state is refused; whatever interleaving the handlers are in,
\* no state is validated twice; and after a ValidateState call the state
\* is not in the store, whether the call returned true or false.
C28_OneTimeState ==
    /\ []C28_StoreInv
    /\ [][/\ \A s \in DOMAIN stateStore' \ DOMAIN stateStore : stateStore'[s] = now + stateTTL
          /\ \A p \in Handlers :
                /\ ValidateStep(p) =>
                      LET s == auReq[p].state
                      IN  /\ s \notin DOMAIN stateStore'
                          /\ auValid'[p] <=> (s \in DOMAIN stateStore /\ ~(now > stateStore[s]))
                          /\ auValid'[p] => s # "" /\ s \in issued /\ validated[s] = 0
                /\ (auPc[p] = "idle" /\ auPc'[p] = "authorize") =>
                      auReq'[p].state = "" /\ ~auValid'[p]]_vars

\* two callbacks with the same state in flight, one validated, one refused
C28_Witness ==
    \E p \in Handlers, q \in Handlers :
        /\ p # q
        /\ auReq[p].state = auReq[q].state
        /\ auReq[p].state \in issued
        /\ auPc[p] = "exchange"
        /\ auValid[p]
        /\ auPc[q] = "authorize"
        /\ ~auValid[q]
        /\ auReq[q].n > auReq[p].n

\* a state refused because its five minutes are over, and removed
C28_WitnessExpired ==
    \E p \in Handlers :
        /\ auPc[p] = "authorize"
        /\ ~auValid[p]
        /\ auReq[p].state \in issued
        /\ validated[auReq[p].state] = 0
        /\ auReq[p].state \notin DOMAIN stateStore
        /\ now = stateTTL + 1
        /\ \A q \in Handlers : auReq[q].op # "RedirectURL"

\* --- C29
\* the step in which handler p returns from a call


C29_ExchangeInv ==
    /\ \A p \in Handlers : auPc[p] = "exchange" => auValid[p] /\ mu = p
    /\ exchanges <= Cardinality({s \in RequestStates : validated[s] = 1})

\* C29: the token changes only when an AuthorizeCode call with a validated
\* state gets a token from the exchange.  cfg.Exchange is called only by a
\* handler whose state was validated, at most once per validated state; a
\* call with a refused state returns an error and a failed exchange returns
\* an error, both with the token as it was; OAuthToken and Persist leave
\* the token as it was; OAuthToken returns ErrTokenNotSet when no token is
\* stored and the stored token otherwise.
C29_TokenFrame ==
    /\ []C29_ExchangeInv
    /\ [][/\ oauthTok' # oauthTok =>
                \E p \in Handlers :
                    /\ auPc[p] = "exchange"
                    /\ auValid[p]
                    /\ auPc'[p] = "idle"
                    /\ auRet'.err = ""
                    /\ exchanges' = exchanges + 1
                    /\ oauthTok' = Token(auReq[p].code)
          /\ exchanges' # exchanges =>
                \E p \in Handlers : auPc[p] = "exchange" /\ auPc'[p] = "idle"
          /\ \A p \in Handlers :
                (auPc[p] = "authorize" /\ ~auValid[p] /\ auPc'[p] = "idle") =>
                    auRet'.err # "" /\ exchanges' = exchanges /\ oauthTok' = oauthTok
          /\ (auRet' # auRet /\ auRet'.err # "") => oauthTok' = oauthTok
          /\ (auRet' # auRet /\ auRet'.op \in {"OAuthToken", "Persist", "RedirectURL"}) =>
                oauthTok' = oauthTok
          /\ (auRet' # auRet /\ auRet'.op = "OAuthToken") =>
                /\ auRet'.err = "ErrTokenNotSet" <=> oauthTok.isNil
                /\ auRet'.err = "" => auRet'.tok = oauthTok]_vars

\* a refused callback, then one that stored a token nobody had before, and
\* OAuthToken returning it
C29_Witness ==
    /\ auRet.op = "OAuthToken"
    /\ auRet.err = ""
    /\ auRet.tok = Token("c2")
    /\ exchanges = 1
    /\ auCalls = 3
    /\ onDisk # oauthTok
\* ------------------------------------------------------- properties: main
\* --- C30
\* srv.Serve has returned and, with the stdio transport on, srv.Run has
\* returned, and the goroutine is past the send of its error
TransportsStopped ==
    /\ httpPc \in {"close", "exited"}
    /\ enableStdio => stdioPc \in {"close", "exited"}

PersistRan == \E i \in DOMAIN mainLog : mainLog[i] = "Persisting token if exists"

\* one of the three triggers has fired: a signal waits in the channel, or
\* srv.Serve or srv.Run has returned
Triggered ==
    \/ shutdown > 0
    \/ httpPc \in {"send", "close", "exited"}
    \/ stdioPc \in {"send", "close", "exited"}

C30_StopOrder ==
    /\ RunsDeferred("Persist") => TransportsStopped
    /\ PersistRan => TransportsStopped
    /\ mainPc = "exited" => PersistRan /\ defers = <<>>
    /\ httpPc = "send" => CanSend(errHTTPCh)
    /\ stdioPc = "send" => CanSend(errStdioCh)
    /\ ~enableStdio => errStdioCh.isNil /\ stdioPc = "none" /\ selected # "stdio"

\* C30: shutdown always completes.  Once an HTTP server error, a stdio
\* transport error or a termination signal has happened, with or without
\* the stdio transport, main gets through its select and through every
\* deferred call and exits: the receive of stopStdio and the receive of
\* stopHTTP each return, also when the select already took the error out
\* of the channel, because the goroutine closes the channel when it ends.
\* tok.Persist runs only when srv.Serve and, if the stdio transport is on,
\* srv.Run have returned, and it has run when main exits; a goroutine
\* never waits to send its error.
C30_ShutdownCompletes ==
    /\ []C30_StopOrder
    /\ Triggered ~> (mainPc = "exited")
    /\ (mainPc = "stopStdio") ~> (mainPc = "defer")
    /\ (mainPc = "stopHTTP") ~> (mainPc = "defer")

\* main took the HTTP error in the select, stopHTTP received from the
\* closed channel, both transports ran, and main exited
C30_Witness ==
    /\ mainPc = "exited"
    /\ enableStdio
    /\ selected = "http"
    /\ httpErr = "srv.ListenAndServe failed"
    /\ \E i \in DOMAIN mainLog : mainLog[i] = "HTTP server stopped"
    /\ \E i \in DOMAIN mainLog : mainLog[i] = "Stdio transport stopped"

\* the trigger was the stdio transport
C30_WitnessStdio == mainPc = "exited" /\ selected = "stdio" /\ stdioErr = "srv.Run failed"

\* the trigger was a signal and the stdio transport was off
C30_WitnessSignal == mainPc = "exited" /\ selected = "signal" /\ ~enableStdio

====
